---------------------------- MODULE Spec2Model ----------------------------
(***************************************************************************)
(* Model of the heatmap globe (heatmap-globe.js, DAT.HeatmapGlobe): the    *)
(* pipeline updateHeatmap -> renderSmoothHeatmap -> isOceanPoint /         *)
(* getOceanHeatmapColor -> applyOceanBlur, over the 512x256 heatmap canvas.*)
(*                                                                         *)
(* JavaScript numbers are modelled as exact rationals <<n, d>> in lowest   *)
(* terms with d > 0; <<0, 0>> is NaN, which is also what `undefined`       *)
(* becomes in arithmetic and comparisons (every comparison with it is      *)
(* false).  The rounding of IEEE doubles is not modelled: where the        *)
(* program computes 30.000000000000014 for the latitude of a sample at     *)
(* latitude 30, the model computes 30.                                     *)
(*                                                                         *)
(* The whale-shark globe (whale-shark-globe.js: loadSharkData,             *)
(* setTimeFilter, toggleShark), the image globe (image-globe.js:           *)
(* loadImage) and the camera controls the three globes share (zoom and the *)
(* handlers that call it) are modelled in sections of their own, each with *)
(* its own specification.                                                  *)
(***************************************************************************)
EXTENDS Integers, Sequences, FiniteSets, TLC

VARIABLES
  pc,          \* position inside updateHeatmap: "idle" when no call is running
  rawData,     \* the flat array [lat0, lon0, mag0, lat1, ...] of the running call
  i,           \* loop index of the parse loop (0-based, as in the code)
  points,      \* renderSmoothHeatmap's `points` list
  j,           \* loop index of the draw loop (0-based)
  fills,       \* the gradient fills issued on the context since the last clearRect
  globalCompositeOperation,  \* ctx.globalCompositeOperation
  raster,      \* the canvas pixels that are not transparent black: <<px,py>> -> RGBA
  needsUpdate, \* heatmapTexture.needsUpdate
  blurPasses,  \* the runs of applyOceanBlur over the canvas since the last clearRect
  colorLog,    \* the calls of getOceanHeatmapColor made in SpecColor, with their results
  \* whale-shark globe (whale-shark-globe.js, DAT.WhaleSharkGlobe)
  sharkTracks,       \* id -> [id, tracks, visible]
  visibleSharks,     \* the Set of ids
  currentTimeFilter, \* null, or <<start, end>>
  trackLines,        \* the THREE.Line objects created by createTrackLines
  sharkMarkers,      \* the THREE.Mesh markers created by createSharkMarkers
  scene,             \* the children of the scene, in the order they were added
  \* image globe (image-globe.js, DAT.ImageGlobe)
  currentTexture,    \* null, or the texture of an image
  uniformTexture,    \* currentMaterial.uniforms.texture.value
  loads,             \* the loadImage requests made so far, each with its progress
  \* camera controls, present in each of the three globes
  globe,             \* which of the three programs this is
  distanceTarget,    \* the distance the camera moves towards
  overRenderer       \* set by mouseover, cleared by mouseout

heatmapVars == <<pc, rawData, i, points, j, fills, globalCompositeOperation, raster,
                 needsUpdate, blurPasses, colorLog>>

sharkVars == <<sharkTracks, visibleSharks, currentTimeFilter, trackLines,
               sharkMarkers, scene>>

imageVars == <<currentTexture, uniformTexture, loads>>

controlVars == <<globe, distanceTarget, overRenderer>>

\* what the heatmap pipeline leaves alone
otherGlobes == <<sharkVars, imageVars, controlVars>>

vars == <<heatmapVars, sharkVars, imageVars, controlVars>>

-----------------------------------------------------------------------------
(* Rational arithmetic standing for JavaScript's number arithmetic.        *)

RECURSIVE GCD(_, _)
GCD(a, b) == IF b = 0 THEN a ELSE GCD(b, a % b)

Abs(n) == IF n < 0 THEN -n ELSE n

NaN == <<0, 0>>

IsNaN(a) == a[2] = 0

Rat(n, d) ==
  IF d = 0 THEN NaN
  ELSE LET g == GCD(Abs(n), Abs(d))
           s == IF d < 0 THEN -1 ELSE 1
       IN  <<(s * n) \div g, (s * d) \div g>>

Num(n) == <<n, 1>>

RAdd(a, b) ==
  IF IsNaN(a) \/ IsNaN(b) THEN NaN
  ELSE LET g == GCD(a[2], b[2])
       IN  Rat(a[1] * (b[2] \div g) + b[1] * (a[2] \div g), (a[2] \div g) * b[2])

RNeg(a) == IF IsNaN(a) THEN NaN ELSE <<-a[1], a[2]>>

RSub(a, b) == RAdd(a, RNeg(b))

RMul(a, b) ==
  IF IsNaN(a) \/ IsNaN(b) THEN NaN
  ELSE LET g1 == GCD(Abs(a[1]), b[2])
           g2 == GCD(Abs(b[1]), a[2])
           h1 == IF g1 = 0 THEN 1 ELSE g1
           h2 == IF g2 = 0 THEN 1 ELSE g2
       IN  Rat((a[1] \div h1) * (b[1] \div h2), (a[2] \div h2) * (b[2] \div h1))

\* a / b; a division by zero gives NaN here (the program never divides by zero)
RDiv(a, b) ==
  IF IsNaN(a) \/ IsNaN(b) \/ b[1] = 0 THEN NaN
  ELSE RMul(a, Rat(b[2], b[1]))

\* a < b, a > b, a <= b as JavaScript compares: false when either side is NaN
RLt(a, b) == ~IsNaN(a) /\ ~IsNaN(b) /\ a[1] * b[2] < b[1] * a[2]
RGt(a, b) == RLt(b, a)
RLe(a, b) == ~IsNaN(a) /\ ~IsNaN(b) /\ a[1] * b[2] <= b[1] * a[2]

\* Math.floor, Math.abs, Math.min
MathFloor(a) == IF IsNaN(a) THEN NaN ELSE Num(a[1] \div a[2])
MathAbs(a) == IF IsNaN(a) THEN NaN ELSE <<Abs(a[1]), a[2]>>
MathMin(a, b) == IF IsNaN(a) \/ IsNaN(b) THEN NaN ELSE IF RLt(b, a) THEN b ELSE a

-----------------------------------------------------------------------------
(* The heatmap canvas (createHeatmapTexture).                              *)

heatmapResolution == 512

heatmapCanvas == [width |-> heatmapResolution, height |-> heatmapResolution \div 2]

\* projectX scaled by the canvas height instead of its width
projectX_byHeight(lon) ==
  RMul(RDiv(RAdd(lon, Num(180)), Num(360)), Num(heatmapCanvas.height))

\* lines 216-217: the canvas coordinates of a sample
projectX(lon) ==
  RMul(RDiv(RAdd(lon, Num(180)), Num(360)), Num(heatmapCanvas.width))

projectY(lat) ==
  RMul(RDiv(RSub(Num(90), lat), Num(180)), Num(heatmapCanvas.height))

\* lines 219-225: the point object built for a sample
makePoint(lat, lon, magnitude) ==
  [x |-> projectX(lon), y |-> projectY(lat), magnitude |-> magnitude,
   lat |-> lat, lon |-> lon]

\* unprojectLat without the flip of the y axis
unprojectLat_noFlip(y) ==
  RSub(RMul(RDiv(y, Num(heatmapCanvas.height)), Num(180)), Num(90))

\* lines 276-277: the latitude and longitude isOceanPoint recomputes from x, y
unprojectLat(y) ==
  RSub(RMul(RDiv(RSub(Num(heatmapCanvas.height), y), Num(heatmapCanvas.height)),
            Num(180)), Num(90))

unprojectLon(x) ==
  RSub(RMul(RDiv(x, Num(heatmapCanvas.width)), Num(360)), Num(180))

\* within with the bounds included
within_inclusive(lat, lon, latMin, latMax, lonMin, lonMax) ==
  /\ RLe(Num(latMin), lat) /\ RLe(lat, Num(latMax))
  /\ RLe(Num(lonMin), lon) /\ RLe(lon, Num(lonMax))

\* lat > latMin && lat < latMax && lon > lonMin && lon < lonMax
within(lat, lon, latMin, latMax, lonMin, lonMax) ==
  /\ RGt(lat, Num(latMin)) /\ RLt(lat, Num(latMax))
  /\ RGt(lon, Num(lonMin)) /\ RLt(lon, Num(lonMax))

\* isDeepOceanArea without the Eastern Atlantic box
isDeepOceanArea_noEasternAtlantic(lat, lon) ==
  IF within(lat, lon, -50, 50, -180, -120) THEN TRUE
  ELSE IF within(lat, lon, -50, 50, 120, 180) THEN TRUE
  ELSE IF within(lat, lon, -50, 60, -60, -10) THEN TRUE
  ELSE IF within(lat, lon, -50, 30, 20, 120) THEN TRUE
  ELSE IF within(lat, lon, -55, -30, -180, 180) THEN TRUE
  ELSE FALSE

\* isDeepOceanArea with the Western Atlantic box reaching up to latitude 80
isDeepOceanArea_arcticAtlantic(lat, lon) ==
  IF within(lat, lon, -50, 50, -180, -120) THEN TRUE
  ELSE IF within(lat, lon, -50, 50, 120, 180) THEN TRUE
  ELSE IF within(lat, lon, -50, 80, -60, -10) THEN TRUE
  ELSE IF within(lat, lon, -50, 60, -30, 20) THEN TRUE
  ELSE IF within(lat, lon, -50, 30, 20, 120) THEN TRUE
  ELSE IF within(lat, lon, -55, -30, -180, 180) THEN TRUE
  ELSE FALSE

\* isDeepOceanArea with the Southern Ocean band at every longitude
isDeepOceanArea_southernAnyLon(lat, lon) ==
  IF within(lat, lon, -50, 50, -180, -120) THEN TRUE
  ELSE IF within(lat, lon, -50, 50, 120, 180) THEN TRUE
  ELSE IF within(lat, lon, -50, 60, -60, -10) THEN TRUE
  ELSE IF within(lat, lon, -50, 60, -30, 20) THEN TRUE
  ELSE IF within(lat, lon, -50, 30, 20, 120) THEN TRUE
  ELSE IF RGt(lat, Num(-55)) /\ RLt(lat, Num(-30)) THEN TRUE
  ELSE FALSE

\* isDeepOceanArea accepting whatever no box names
isDeepOceanArea_defaultTrue(lat, lon) ==
  IF within(lat, lon, -50, 50, -180, -120) THEN TRUE
  ELSE IF within(lat, lon, -50, 50, 120, 180) THEN TRUE
  ELSE IF within(lat, lon, -50, 60, -60, -10) THEN TRUE
  ELSE IF within(lat, lon, -50, 60, -30, 20) THEN TRUE
  ELSE IF within(lat, lon, -50, 30, 20, 120) THEN TRUE
  ELSE IF within(lat, lon, -55, -30, -180, 180) THEN TRUE
  ELSE TRUE

isDeepOceanArea(lat, lon) ==
  IF within(lat, lon, -50, 50, -180, -120) THEN TRUE        \* Eastern Pacific
  ELSE IF within(lat, lon, -50, 50, 120, 180) THEN TRUE     \* Western Pacific
  ELSE IF within(lat, lon, -50, 60, -60, -10) THEN TRUE     \* Western Atlantic
  ELSE IF within(lat, lon, -50, 60, -30, 20) THEN TRUE      \* Eastern Atlantic
  ELSE IF within(lat, lon, -50, 30, 20, 120) THEN TRUE      \* Indian Ocean
  ELSE IF within(lat, lon, -55, -30, -180, 180) THEN TRUE   \* Southern Ocean
  ELSE FALSE

\* isOceanPoint asking isDeepOceanArea before the exclusion boxes
isOceanPoint_inclusionFirst(point) ==
  LET lat == unprojectLat(point.y)
      lon == unprojectLon(point.x)
  IN  IF RLt(lat, Num(-60)) THEN FALSE
      ELSE IF RGt(lat, Num(75)) THEN FALSE
      ELSE IF isDeepOceanArea(lat, lon) THEN TRUE
      ELSE IF within(lat, lon, 30, 47, -6, 42) THEN FALSE
      ELSE IF within(lat, lon, 12, 30, 32, 56) THEN FALSE
      ELSE IF within(lat, lon, 53, 66, 3, 31) THEN FALSE
      ELSE IF within(lat, lon, 30, 46, 120, 142) THEN FALSE
      ELSE IF within(lat, lon, 51, 70, -95, -78) THEN FALSE
      ELSE IF within(lat, lon, 41, 49, -93, -76) THEN FALSE
      ELSE IF within(lat, lon, 18, 31, -98, -80) THEN FALSE
      ELSE IF RGt(MathAbs(lat), Num(70)) THEN FALSE
      ELSE FALSE

\* isOceanPoint with the exclusion boxes only: no polar limits, no deep-ocean test
isOceanPoint_boxesOnly(point) ==
  LET lat == unprojectLat(point.y)
      lon == unprojectLon(point.x)
  IN  IF within(lat, lon, 30, 47, -6, 42) THEN FALSE
      ELSE IF within(lat, lon, 12, 30, 32, 56) THEN FALSE
      ELSE IF within(lat, lon, 53, 66, 3, 31) THEN FALSE
      ELSE IF within(lat, lon, 30, 46, 120, 142) THEN FALSE
      ELSE IF within(lat, lon, 51, 70, -95, -78) THEN FALSE
      ELSE IF within(lat, lon, 41, 49, -93, -76) THEN FALSE
      ELSE IF within(lat, lon, 18, 31, -98, -80) THEN FALSE
      ELSE TRUE

isOceanPoint(point) ==
  LET lat == unprojectLat(point.y)
      lon == unprojectLon(point.x)
  IN  IF RLt(lat, Num(-60)) THEN FALSE
      ELSE IF RGt(lat, Num(75)) THEN FALSE
      ELSE IF within(lat, lon, 30, 47, -6, 42) THEN FALSE     \* Mediterranean, Black Sea
      ELSE IF within(lat, lon, 12, 30, 32, 56) THEN FALSE     \* Red Sea, Persian Gulf
      ELSE IF within(lat, lon, 53, 66, 3, 31) THEN FALSE      \* Baltic, North Sea
      ELSE IF within(lat, lon, 30, 46, 120, 142) THEN FALSE   \* Sea of Japan, East China Sea
      ELSE IF within(lat, lon, 51, 70, -95, -78) THEN FALSE   \* Hudson Bay
      ELSE IF within(lat, lon, 41, 49, -93, -76) THEN FALSE   \* Great Lakes
      ELSE IF within(lat, lon, 18, 31, -98, -80) THEN FALSE   \* Caribbean, Gulf of Mexico
      ELSE IF RGt(MathAbs(lat), Num(70)) THEN FALSE
      ELSE isDeepOceanArea(lat, lon)

\* Math.floor(base + t * span) as an integer
channel(base, t, span) == MathFloor(RAdd(Num(base), RMul(t, Num(span))))[1]

\* getOceanHeatmapColor with the blue of the second segment rising instead of falling
getOceanHeatmapColor_signSlip(magnitude) ==
  IF RLt(magnitude, Rat(1, 10)) THEN
    LET t == RDiv(magnitude, Rat(1, 10))
    IN  [r |-> channel(0, t, 30), g |-> channel(50, t, 80), b |-> channel(150, t, 105)]
  ELSE IF RLt(magnitude, Rat(3, 10)) THEN
    LET t == RDiv(RSub(magnitude, Rat(1, 10)), Rat(2, 10))
    IN  [r |-> channel(30, t, 0), g |-> channel(130, t, 125), b |-> channel(255, t, 100)]
  ELSE IF RLt(magnitude, Rat(7, 10)) THEN
    LET t == RDiv(RSub(magnitude, Rat(3, 10)), Rat(4, 10))
    IN  [r |-> channel(0, t, 50), g |-> channel(255, t, -50), b |-> channel(155, t, -155)]
  ELSE
    LET t == RDiv(RSub(magnitude, Rat(7, 10)), Rat(3, 10))
    IN  [r |-> channel(50, t, 205), g |-> channel(205, t, 50), b |-> 0]

getOceanHeatmapColor(magnitude) ==
  IF RLt(magnitude, Rat(1, 10)) THEN
    LET t == RDiv(magnitude, Rat(1, 10))
    IN  [r |-> channel(0, t, 30), g |-> channel(50, t, 80), b |-> channel(150, t, 105)]
  ELSE IF RLt(magnitude, Rat(3, 10)) THEN
    LET t == RDiv(RSub(magnitude, Rat(1, 10)), Rat(2, 10))
    IN  [r |-> channel(30, t, 0), g |-> channel(130, t, 125), b |-> channel(255, t, -100)]
  ELSE IF RLt(magnitude, Rat(7, 10)) THEN
    LET t == RDiv(RSub(magnitude, Rat(3, 10)), Rat(4, 10))
    IN  [r |-> channel(0, t, 50), g |-> channel(255, t, -50), b |-> channel(155, t, -155)]
  ELSE
    LET t == RDiv(RSub(magnitude, Rat(7, 10)), Rat(3, 10))
    IN  [r |-> channel(50, t, 205), g |-> channel(205, t, 50), b |-> 0]

-----------------------------------------------------------------------------
(* The 2D context.  The browser's rasteriser is outside the repository; it  *)
(* is modelled at pixel centres, without anti-aliasing, with positions in   *)
(* sixteenths of a pixel and 8-bit non-premultiplied RGBA pixels.  A pixel  *)
(* absent from `raster` is transparent black.                               *)

Transparent == [r |-> 0, g |-> 0, b |-> 0, a |-> 0]

pixelAt(rast, p) == IF p \in DOMAIN rast THEN rast[p] ELSE Transparent

onCanvas(p) ==
  /\ p[1] >= 0 /\ p[1] < heatmapCanvas.width
  /\ p[2] >= 0 /\ p[2] < heatmapCanvas.height

\* the pixels of f that are not transparent black
sparse(f) == [p \in {q \in DOMAIN f : f[q] # Transparent} |-> f[p]]

\* ctx.clearRect(0, 0, width, height)
clearRect == << >>

fixed(a) == MathFloor(RMul(a, Num(16)))[1]

\* the largest k in lo..hi with k * k <= n (lo * lo <= n is given)
RECURSIVE isqrtIn(_, _, _)
isqrtIn(n, lo, hi) ==
  IF lo = hi THEN lo
  ELSE LET mid == (lo + hi + 1) \div 2
       IN  IF mid * mid <= n THEN isqrtIn(n, mid, hi) ELSE isqrtIn(n, lo, mid - 1)

isqrt(n) == isqrtIn(n, 0, 100)

clamp255(n) == IF n < 0 THEN 0 ELSE IF n > 255 THEN 255 ELSE n

\* the alpha byte of the CSS colour rgba(r, g, b, alpha)
alphaByte(alpha) == clamp255(MathFloor(RAdd(RMul(alpha, Num(255)), Rat(1, 2)))[1])

\* the alpha byte of a three-stop gradient (alpha bytes a0, a7, a1 at the offsets
\* 0, 0.7, 1) at t hundredths of the radius
gradientAlpha(a0, a7, a1, t) ==
  IF t <= 70 THEN a0 + ((a7 - a0) * t) \div 70
  ELSE a7 + ((a1 - a7) * (t - 70)) \div 30

\* one channel of the 'screen' blend of a source over a backdrop, and of
\* 'source-over': the blended colour is cb + cs - cb * cs for 'screen' and cs
\* otherwise (kept in sixteenths of a byte), it is weighted as * ab, the
\* source as * (1 - ab) and the backdrop (1 - as) * ab, and the sum is divided
\* by the opacity of the result and rounded to the nearest byte
blendChannel(op, cb, ab, cs, as) ==
  LET mixed == IF op = "screen"
               THEN 16 * (cb + cs) - (32 * cb * cs + 255) \div (2 * 255)
               ELSE 16 * cs
      weighted == 16 * as * (255 - ab) * cs + as * ab * mixed + 16 * (255 - as) * ab * cb
      ao == as * 255 + ab * 255 - as * ab
  IN  IF ao = 0 THEN 0 ELSE clamp255((2 * weighted + 16 * ao) \div (2 * 16 * ao))

composite(op, back, color, as) ==
  LET ao == (as * 255 + back.a * 255 - as * back.a + 127) \div 255
  IN  IF ao = 0 THEN Transparent
      ELSE [r |-> blendChannel(op, back.r, back.a, clamp255(color.r), as),
            g |-> blendChannel(op, back.g, back.a, clamp255(color.g), as),
            b |-> blendChannel(op, back.b, back.a, clamp255(color.b), as),
            a |-> ao]

\* pixel p's centre lies in the disc of ctx.arc(x, y, radius, 0, 2 * PI); the
\* position xs, ys and the radius rs are in sixteenths of a pixel
inArc(p, xs, ys, rs) ==
  /\ onCanvas(p)
  /\ (16 * p[1] + 8 - xs) * (16 * p[1] + 8 - xs)
       + (16 * p[2] + 8 - ys) * (16 * p[2] + 8 - ys) <= rs * rs

\* the pixels of the disc
arcPixels(xs, ys, rs) ==
  {p \in (((xs - rs) \div 16) - 1 .. ((xs + rs) \div 16) + 1)
           \X (((ys - rs) \div 16) - 1 .. ((ys + rs) \div 16) + 1) : inArc(p, xs, ys, rs)}

\* the distance of pixel p's centre from the centre in hundredths of the radius
offsetAt(p, xs, ys, rs) ==
  isqrt((((16 * p[1] + 8 - xs) * (16 * p[1] + 8 - xs)
            + (16 * p[2] + 8 - ys) * (16 * p[2] + 8 - ys)) * 10000) \div (rs * rs))

\* the fill of the disc at xs, ys with radius rs and alpha bytes a0, a7, a1 at
\* the three stops
fillArc(rast, xs, ys, rs, op, color, a0, a7, a1) ==
  sparse([p \in arcPixels(xs, ys, rs) \cup DOMAIN rast |->
            IF inArc(p, xs, ys, rs)
            THEN composite(op, pixelAt(rast, p), color,
                           gradientAlpha(a0, a7, a1, offsetAt(p, xs, ys, rs)))
            ELSE rast[p]])

\* ctx.fill() of the arc with the gradient as fillStyle (lines 260-264); the
\* stops lie at the offsets 0, 0.7 and 1 and carry one colour
fill(rast, g) ==
  fillArc(rast, fixed(g.x), fixed(g.y), fixed(g.radius), g.op, g.stops[1].color,
          alphaByte(g.stops[1].alpha), alphaByte(g.stops[2].alpha),
          alphaByte(g.stops[3].alpha))

-----------------------------------------------------------------------------
(* selectiveOceanBlur and applyOceanBlur.                                   *)

\* the floored positions of the points (lines 386-387)
floored(pts) == [k \in 1..Len(pts) |-> <<MathFloor(pts[k].x)[1], MathFloor(pts[k].y)[1]>>]

\* masked reaching 4 pixels from a floored position
masked_reach4(p, fl) ==
  /\ onCanvas(p)
  /\ \E k \in 1..Len(fl) : Abs(p[1] - fl[k][1]) <= 4 /\ Abs(p[2] - fl[k][2]) <= 4

\* lines 384-400: p is on the canvas and within 3 of a floored position
masked(p, fl) ==
  /\ onCanvas(p)
  /\ \E k \in 1..Len(fl) : Abs(p[1] - fl[k][1]) <= 3 /\ Abs(p[2] - fl[k][2]) <= 3

oceanMask(fl) ==
  {p \in UNION {((fl[k][1] - 3) .. (fl[k][1] + 3)) \X ((fl[k][2] - 3) .. (fl[k][2] + 3)) :
                  k \in 1..Len(fl)} : onCanvas(p)}

\* the pixels of the 3x3 neighbourhood of p that lie on the canvas (lines 411-416)
neighbours(p) == {q \in ((p[1] - 1) .. (p[1] + 1)) \X ((p[2] - 1) .. (p[2] + 1)) : onCanvas(q)}

\* channel ch of the pixel at p + <<dx, dy>>, 0 when that is off the canvas
term(rast, p, dx, dy, ch) ==
  IF onCanvas(<<p[1] + dx, p[2] + dy>>) THEN pixelAt(rast, <<p[1] + dx, p[2] + dy>>)[ch] ELSE 0

\* lines 411-424: the sum of channel ch over the neighbourhood of p
sumOver(rast, p, ch) ==
  term(rast, p, -1, -1, ch) + term(rast, p, 0, -1, ch) + term(rast, p, 1, -1, ch)
    + term(rast, p, -1, 0, ch) + term(rast, p, 0, 0, ch) + term(rast, p, 1, 0, ch)
    + term(rast, p, -1, 1, ch) + term(rast, p, 0, 1, ch) + term(rast, p, 1, 1, ch)

\* the byte a Uint8ClampedArray stores for sum / count: nearest, ties to even
toUint8Clamp(sum, count) ==
  LET q == sum \div count
      rem == sum % count
  IN  clamp255(IF 2 * rem < count THEN q
               ELSE IF 2 * rem > count THEN q + 1
               ELSE IF q % 2 = 0 THEN q ELSE q + 1)

\* blurPixel dividing by 9 whatever the number of neighbours on the canvas
blurPixel_fixedCount(data, p) ==
  [ch \in {"r", "g", "b", "a"} |-> toUint8Clamp(sumOver(data, p, ch), 9)]

\* lines 409-431: the blurred value of a masked pixel, read from the input data
blurPixel(data, p) ==
  LET count == Cardinality(neighbours(p))
  IN  [ch \in {"r", "g", "b", "a"} |-> toUint8Clamp(sumOver(data, p, ch), count)]

\* blurWith without the mask: every painted pixel is blurred
blurWith_everywhere(data, fl) ==
  sparse([p \in oceanMask(fl) \cup DOMAIN data |->
            IF onCanvas(p) THEN blurPixel(data, p) ELSE data[p]])

\* lines 402-442: the output image
blurWith(data, fl) ==
  sparse([p \in oceanMask(fl) \cup DOMAIN data |->
            IF masked(p, fl) THEN blurPixel(data, p) ELSE data[p]])

selectiveOceanBlur(data, pts) == blurWith(data, floored(pts))

\* getImageData, selectiveOceanBlur, putImageData
applyOceanBlur(rast, pts) == selectiveOceanBlur(rast, pts)

-----------------------------------------------------------------------------
(* Inputs.                                                                  *)

\* the longest sample list of a multi-sample input
MaxSamples == 2

\* grid samples lie on the box edges and 1/GridDen of a degree beside them
GridDen == 2

\* the box edges of isOceanPoint and isDeepOceanArea, the ends of the ranges, and
\* some values inside and outside them
LatEdges == {-91, -90, -60, -55, -50, -40, -30, 0, 12, 18, 30, 31, 40, 41, 46, 47,
             49, 50, 51, 53, 60, 66, 70, 75, 90, 91}

LonEdges == {-200, -180, -120, -98, -95, -93, -80, -78, -76, -60, -30, -10, -6, 0,
             3, 10, 20, 31, 32, 42, 56, 120, 142, 180, 200}

GridLats == {Rat(e * GridDen + k, GridDen) : e \in LatEdges, k \in {-1, 0, 1}}

GridLons == {Rat(e * GridDen + k, GridDen) : e \in LonEdges, k \in {-1, 0, 1}}

\* one sample per input, over the whole grid
GridInputs == {<<lat, lon, Rat(8, 10)>> : lat \in GridLats, lon \in GridLons}

\* samples of the multi-sample inputs: <<lat, lon, magnitude>>
Samples ==
  { <<Num(0), Num(0), Rat(5, 10)>>,       \* mid-Atlantic, moderate
    <<Num(40), Num(20), Rat(8, 10)>>,     \* Mediterranean
    <<Num(0), Num(0), Rat(1, 100)>>,      \* magnitude exactly 0.01
    <<Num(0), Num(0), Rat(2, 100)>>,      \* magnitude just above 0.01
    <<Num(-40), Num(100), Rat(13, 10)>>,  \* Indian Ocean, magnitude above 1
    <<Num(0), Num(0), Rat(9, 10)>>,       \* mid-Atlantic, high
    <<Num(0), Num(0), Rat(2, 10)>> }      \* mid-Atlantic, low

RECURSIVE flatten(_)
flatten(ss) == IF ss = << >> THEN << >> ELSE Head(ss) \o flatten(Tail(ss))

SampleLists == UNION {[1..n -> Samples] : n \in 0..MaxSamples}

\* a trailing partial triplet: nothing, a latitude, or a latitude and a longitude
Partials == {<< >>, <<Num(10)>>, <<Num(10), Num(-150)>>}

Inputs == {flatten(ss) \o t : ss \in SampleLists, t \in Partials}

\* rawData[k] with a 0-based index; undefined beyond the end
element(data, k) == IF k + 1 <= Len(data) THEN data[k + 1] ELSE NaN

-----------------------------------------------------------------------------
(* updateHeatmap, step by step.  JavaScript runs a call to completion, so   *)
(* no other handler runs while pc # "idle".                                 *)

baseRadius == 2

\* gradient.addColorStop(offset, `rgba(r, g, b, alpha)`)
colorStop(offset, color, alpha) == [offset |-> offset, color |-> color, alpha |-> alpha]

\* gradientFor without the cap on the radius
gradientFor_noCap(point) ==
  LET radius == RAdd(Num(baseRadius), RMul(point.magnitude, Num(2)))
      color == getOceanHeatmapColor(point.magnitude)
      alpha == MathMin(RMul(point.magnitude, Num(2)), Rat(9, 10))
  IN  [x |-> point.x, y |-> point.y, radius |-> radius, color |-> color,
       alpha |-> alpha,
       stops |-> <<colorStop(Num(0), color, alpha),
                   colorStop(Rat(7, 10), color, RMul(alpha, Rat(3, 10))),
                   colorStop(Num(1), color, Num(0))>>,
       op |-> "screen"]

\* gradientFor with the middle stop as opaque as the centre
gradientFor_flatCore(point) ==
  LET radius == MathMin(RAdd(Num(baseRadius), RMul(point.magnitude, Num(2))), Num(4))
      color == getOceanHeatmapColor(point.magnitude)
      alpha == MathMin(RMul(point.magnitude, Num(2)), Rat(9, 10))
  IN  [x |-> point.x, y |-> point.y, radius |-> radius, color |-> color,
       alpha |-> alpha,
       stops |-> <<colorStop(Num(0), color, alpha),
                   colorStop(Rat(7, 10), color, alpha),
                   colorStop(Num(1), color, Num(0))>>,
       op |-> "screen"]

\* gradientFor with an alpha that falls as the magnitude rises
gradientFor_invertedAlpha(point) ==
  LET radius == MathMin(RAdd(Num(baseRadius), RMul(point.magnitude, Num(2))), Num(4))
      color == getOceanHeatmapColor(point.magnitude)
      alpha == RSub(Num(1), MathMin(RMul(point.magnitude, Num(2)), Rat(9, 10)))
  IN  [x |-> point.x, y |-> point.y, radius |-> radius, color |-> color,
       alpha |-> alpha,
       stops |-> <<colorStop(Num(0), color, alpha),
                   colorStop(Rat(7, 10), color, RMul(alpha, Rat(3, 10))),
                   colorStop(Num(1), color, Num(0))>>,
       op |-> "screen"]

\* gradientFor drawn with the default composite operation
gradientFor_sourceOver(point) ==
  LET radius == MathMin(RAdd(Num(baseRadius), RMul(point.magnitude, Num(2))), Num(4))
      color == getOceanHeatmapColor(point.magnitude)
      alpha == MathMin(RMul(point.magnitude, Num(2)), Rat(9, 10))
  IN  [x |-> point.x, y |-> point.y, radius |-> radius, color |-> color,
       alpha |-> alpha,
       stops |-> <<colorStop(Num(0), color, alpha),
                   colorStop(Rat(7, 10), color, RMul(alpha, Rat(3, 10))),
                   colorStop(Num(1), color, Num(0))>>,
       op |-> "source-over"]

\* lines 242-260: the gradient fill drawn for a point; all three stops carry
\* the colour of line 252
gradientFor(point) ==
  LET radius == MathMin(RAdd(Num(baseRadius), RMul(point.magnitude, Num(2))), Num(4))
      color == getOceanHeatmapColor(point.magnitude)
      alpha == MathMin(RMul(point.magnitude, Num(2)), Rat(9, 10))
  IN  [x |-> point.x, y |-> point.y, radius |-> radius, color |-> color,
       alpha |-> alpha,
       stops |-> <<colorStop(Num(0), color, alpha),
                   colorStop(Rat(7, 10), color, RMul(alpha, Rat(3, 10))),
                   colorStop(Num(1), color, Num(0))>>,
       op |-> "screen"]

-----------------------------------------------------------------------------
(* The state of the other two globes and of the camera controls after      *)
(* construction.                                                           *)

null == << >>

\* the globe mesh and the atmosphere, added by init()
globeMeshes == <<[type |-> "mesh", name |-> "globe"], [type |-> "mesh", name |-> "atmosphere"]>>

\* whale-shark-globe.js lines 98-103 and init()
sharkInit ==
  /\ sharkTracks = << >>
  /\ visibleSharks = {}
  /\ currentTimeFilter = null
  /\ trackLines = << >>
  /\ sharkMarkers = << >>
  /\ scene = globeMeshes

\* the THREE.Texture() the material starts with
defaultTexture == <<"default", 0>>

\* image-globe.js: currentTexture = null, uniforms.texture.value = new THREE.Texture()
imageInit ==
  /\ currentTexture = null
  /\ uniformTexture = defaultTexture
  /\ loads = << >>

Globes == {"heatmap", "image", "whale-shark"}

\* var distance = 100000, distanceTarget = 100000; the whale-shark globe's
\* init() then sets distanceTarget = 800
initialDistanceTarget(g) == IF g = "whale-shark" THEN Num(800) ELSE Num(100000)

\* var overRenderer is undefined, which the wheel handler takes as false
controlsInit(g) ==
  /\ globe = g
  /\ distanceTarget = initialDistanceTarget(g)
  /\ overRenderer = FALSE

\* the state of the heatmap globe after construction
heatmapInit ==
  /\ pc = "idle"
  /\ rawData = << >>
  /\ i = 0
  /\ points = << >>
  /\ j = 0
  /\ fills = << >>
  /\ globalCompositeOperation = "source-over"
  /\ raster = clearRect
  /\ needsUpdate = TRUE
  /\ blurPasses = 0
  /\ colorLog = << >>

Init ==
  /\ heatmapInit
  /\ sharkInit /\ imageInit /\ controlsInit("heatmap")

\* updateHeatmap without the clearRect
updateHeatmap_noClear ==
  /\ pc = "idle"
  /\ \E data \in Inputs : rawData' = data
  /\ fills' = << >>
  /\ points' = << >>
  /\ i' = 0
  /\ blurPasses' = 0
  /\ pc' = "parse"
  /\ UNCHANGED <<j, globalCompositeOperation, raster, needsUpdate, colorLog,
                 otherGlobes>>

\* updateHeatmap with a points list that outlives the call
updateHeatmap_keepPoints ==
  /\ pc = "idle"
  /\ \E data \in Inputs : rawData' = data
  /\ raster' = clearRect
  /\ fills' = << >>
  /\ i' = 0
  /\ blurPasses' = 0
  /\ pc' = "parse"
  /\ UNCHANGED <<points, j, globalCompositeOperation, needsUpdate, colorLog,
                 otherGlobes>>

\* lines 189-195 and 207: a call starts, the canvas is cleared
updateHeatmap ==
  /\ pc = "idle"
  /\ \E data \in Inputs : rawData' = data
  /\ raster' = clearRect
  /\ fills' = << >>
  /\ points' = << >>
  /\ i' = 0
  /\ blurPasses' = 0
  /\ pc' = "parse"
  /\ UNCHANGED <<j, globalCompositeOperation, needsUpdate, colorLog,
                 otherGlobes>>

\* parseSample with the threshold test written magnitude >= 0.01
parseSample_thresholdInclusive ==
  /\ pc = "parse"
  /\ i < Len(rawData)
  /\ LET lat == element(rawData, i)
         lon == element(rawData, i + 1)
         magnitude == element(rawData, i + 2)
         point == makePoint(lat, lon, magnitude)
     IN  points' = IF RLe(Rat(1, 100), magnitude) /\ isOceanPoint(point)
                   THEN Append(points, point)
                   ELSE points
  /\ i' = i + 3
  /\ UNCHANGED <<pc, rawData, j, fills, globalCompositeOperation, raster,
                 needsUpdate, blurPasses, colorLog,
                 otherGlobes>>

\* lines 210-231: one iteration of the parse loop
parseSample ==
  /\ pc = "parse"
  /\ i < Len(rawData)
  /\ LET lat == element(rawData, i)
         lon == element(rawData, i + 1)
         magnitude == element(rawData, i + 2)
         point == makePoint(lat, lon, magnitude)
     IN  points' = IF RGt(magnitude, Rat(1, 100)) /\ isOceanPoint(point)
                   THEN Append(points, point)
                   ELSE points
  /\ i' = i + 3
  /\ UNCHANGED <<pc, rawData, j, fills, globalCompositeOperation, raster,
                 needsUpdate, blurPasses, colorLog,
                 otherGlobes>>

\* line 210 (loop exit) and line 238 (the draw loop starts; its index is the
\* same function-scoped `i`, kept apart here as j)
parseDone ==
  /\ pc = "parse"
  /\ ~(i < Len(rawData))
  /\ pc' = "draw"
  /\ j' = 0
  /\ UNCHANGED <<rawData, i, points, fills, globalCompositeOperation, raster,
                 needsUpdate, blurPasses, colorLog,
                 otherGlobes>>

\* lines 238-265: one iteration of the draw loop
drawPoint ==
  /\ pc = "draw"
  /\ j < Len(points)
  /\ LET gradient == gradientFor(points[j + 1])
     IN  /\ globalCompositeOperation' = gradient.op
         /\ raster' = fill(raster, gradient)
         /\ fills' = Append(fills, gradient)
  /\ j' = j + 1
  /\ UNCHANGED <<pc, rawData, i, points, needsUpdate, blurPasses, colorLog,
                 otherGlobes>>

\* drawDone going on to the texture flag without the blur
drawDone_skipBlur ==
  /\ pc = "draw"
  /\ ~(j < Len(points))
  /\ globalCompositeOperation' = "source-over"
  /\ pc' = "flag"
  /\ UNCHANGED <<rawData, i, points, j, fills, raster, needsUpdate, blurPasses, colorLog,
                 otherGlobes>>

\* line 238 (loop exit) and line 268
drawDone ==
  /\ pc = "draw"
  /\ ~(j < Len(points))
  /\ globalCompositeOperation' = "source-over"
  /\ pc' = "blur"
  /\ UNCHANGED <<rawData, i, points, j, fills, raster, needsUpdate, blurPasses, colorLog,
                 otherGlobes>>

\* line 271
blurStep ==
  /\ pc = "blur"
  /\ raster' = applyOceanBlur(raster, points)
  /\ blurPasses' = blurPasses + 1
  /\ pc' = "flag"
  /\ UNCHANGED <<rawData, i, points, j, fills, globalCompositeOperation,
                 needsUpdate, colorLog,
                 otherGlobes>>

\* line 201, and the call returns
flagTexture ==
  /\ pc = "flag"
  /\ needsUpdate' = TRUE
  /\ pc' = "idle"
  /\ UNCHANGED <<rawData, i, points, j, fills, globalCompositeOperation, raster,
                 blurPasses, colorLog,
                 otherGlobes>>

\* renderer.render (line 508): the renderer uploads a flagged texture
uploadTexture ==
  /\ pc = "idle"
  /\ needsUpdate
  /\ needsUpdate' = FALSE
  /\ UNCHANGED <<pc, rawData, i, points, j, fills, globalCompositeOperation,
                 raster, blurPasses, colorLog,
                 otherGlobes>>

Next ==
  \/ updateHeatmap
  \/ parseSample
  \/ parseDone
  \/ drawPoint
  \/ drawDone
  \/ blurStep
  \/ flagTexture
  \/ uploadTexture

Spec == Init /\ [][Next]_vars

-----------------------------------------------------------------------------
(* One call of updateHeatmap on a new globe, for every sample of the grid:  *)
(* the states right after the canvas was cleared.                           *)

InitGrid ==
  /\ pc = "parse"
  /\ rawData \in GridInputs
  /\ i = 0
  /\ points = << >>
  /\ j = 0
  /\ fills = << >>
  /\ globalCompositeOperation = "source-over"
  /\ raster = clearRect
  /\ needsUpdate = TRUE
  /\ blurPasses = 0
  /\ colorLog = << >>
  /\ sharkInit /\ imageInit /\ controlsInit("heatmap")

NextGrid ==
  \/ parseSample
  \/ parseDone
  \/ drawPoint
  \/ drawDone
  \/ blurStep
  \/ flagTexture

SpecGrid == InitGrid /\ [][NextGrid]_vars

-----------------------------------------------------------------------------
(* One call of updateHeatmap per sample list, and applyOceanBlur on its      *)
(* own: after the blur of the render, the blur is run again over the canvas *)
(* with the same points.                                                    *)

\* the number of blur passes over one canvas
MaxPasses == 3

\* the sample lists whose samples have a magnitude above the threshold 0.01
BlurInputs ==
  {flatten(ss) : ss \in {ss \in SampleLists : \A k \in DOMAIN ss : RGt(ss[k][3], Rat(1, 100))}}

InitBlur ==
  /\ pc = "parse"
  /\ rawData \in BlurInputs
  /\ i = 0
  /\ points = << >>
  /\ j = 0
  /\ fills = << >>
  /\ globalCompositeOperation = "source-over"
  /\ raster = clearRect
  /\ needsUpdate = TRUE
  /\ blurPasses = 0
  /\ colorLog = << >>
  /\ sharkInit /\ imageInit /\ controlsInit("heatmap")

\* applyOceanBlur(ctx, points) once more
blurAgain ==
  /\ pc = "flag"
  /\ blurPasses < MaxPasses
  /\ raster' = applyOceanBlur(raster, points)
  /\ blurPasses' = blurPasses + 1
  /\ UNCHANGED <<pc, rawData, i, points, j, fills, globalCompositeOperation,
                 needsUpdate, colorLog,
                 otherGlobes>>

NextBlur ==
  \/ parseSample
  \/ parseDone
  \/ drawPoint
  \/ drawDone
  \/ blurStep
  \/ blurAgain

SpecBlur == InitBlur /\ [][NextBlur]_vars

-----------------------------------------------------------------------------
(* One call of updateHeatmap on inputs that mix samples inside and outside  *)
(* the ranges of latitude and longitude.                                    *)

RangeSamples ==
  { <<Num(0), Num(0), Rat(5, 10)>>,       \* mid-Atlantic
    <<Num(-40), Num(179), Rat(8, 10)>>,   \* Southern Ocean, by the right edge
    <<Num(91), Num(0), Rat(8, 10)>>,      \* latitude above 90
    <<Num(-91), Num(0), Rat(8, 10)>>,     \* latitude below -90
    <<Num(-40), Num(181), Rat(8, 10)>>,   \* longitude above 180
    <<Num(-40), Num(-181), Rat(8, 10)>>,  \* longitude below -180
    <<Num(0), Num(360), Rat(8, 10)>>,     \* a full turn east of the mid-Atlantic
    <<Num(180), Num(-540), Rat(8, 10)>> } \* both out of range

RangeInputs == {flatten(ss) : ss \in UNION {[1..n -> RangeSamples] : n \in 0..MaxSamples}}

InitRange ==
  /\ pc = "parse"
  /\ rawData \in RangeInputs
  /\ i = 0
  /\ points = << >>
  /\ j = 0
  /\ fills = << >>
  /\ globalCompositeOperation = "source-over"
  /\ raster = clearRect
  /\ needsUpdate = TRUE
  /\ blurPasses = 0
  /\ colorLog = << >>
  /\ sharkInit /\ imageInit /\ controlsInit("heatmap")

SpecRange == InitRange /\ [][NextGrid]_vars

-----------------------------------------------------------------------------
(* getOceanHeatmapColor on its own: magnitudes drawn from a grid.           *)

\* the number of calls logged
MaxCalls == 2

\* the grid runs from 0 to MagSteps twentieths
MagSteps == 30

Eps == Rat(1, 10000)

Boundaries == {Rat(1, 10), Rat(3, 10), Rat(7, 10)}

MagGrid ==
  {Rat(k, 20) : k \in 0..MagSteps}
    \cup {RAdd(b, RMul(Num(k), Eps)) : b \in Boundaries, k \in {-1, 0, 1}}

callColor ==
  /\ Len(colorLog) < MaxCalls
  /\ \E m \in MagGrid :
       colorLog' = Append(colorLog, [magnitude |-> m, color |-> getOceanHeatmapColor(m)])
  /\ UNCHANGED <<pc, rawData, i, points, j, fills, globalCompositeOperation,
                 raster, needsUpdate, blurPasses,
                 otherGlobes>>

NextColor == callColor

SpecColor == Init /\ [][NextColor]_vars

-----------------------------------------------------------------------------
(* The whale-shark globe: loadSharkData, setTimeFilter and toggleShark,    *)
(* each followed by createTrackLines and createSharkMarkers.  A track      *)
(* point is the array [lng, lat, depth, timestamp]; the projection of a    *)
(* point to a THREE.Vector3 is kept as its latitude, longitude and radius. *)
(* An object of the scene is known by its content: the shark it was made   *)
(* for and its geometry.  Names and colours of sharks are left out.        *)

maxVisibleTracks == 20

maxPointsPerTrack == 100

MaxSharks == 22

MaxTrackLen == 199

trackPoint(k, timestamp) == <<k, -k, 0, timestamp>>

trackOf(times) == [k \in 1..Len(times) |-> trackPoint(k, times[k])]

ShortTimes == {<< >>, <<1>>, <<1, 2>>, <<3, 1, 2>>}

sharkOf(id, tracks) == [id |-> id, tracks |-> tracks]

SmallDatasets ==
  {<< >>}
    \cup {<<sharkOf(a, trackOf(t))>> : a \in 1..2, t \in ShortTimes}
    \cup {<<sharkOf(1, trackOf(t)), sharkOf(2, trackOf(u))>> : t, u \in ShortTimes}

\* MaxSharks sharks; the first has a single track point, the others two
school ==
  [k \in 1..MaxSharks |-> sharkOf(k, trackOf(IF k = 1 THEN <<1>> ELSE <<1, 2>>))]

LongDatasets ==
  {<<sharkOf(1, trackOf([k \in 1..n |-> k]))>> :
     n \in {maxPointsPerTrack, maxPointsPerTrack + 1, MaxTrackLen}}

Datasets == SmallDatasets \cup {school} \cup LongDatasets

ToggleIds == {1, 2, MaxSharks, MaxSharks + 1}

\* an argument of setTimeFilter: null, or <<t>> for the timestamp t
TimeArgs == {null} \cup {<<t>> : t \in 1..3}

\* isWithinTimeFilter with the end of the filter excluded
isWithinTimeFilter_endExcluded(timestamp, filter) ==
  IF filter = null THEN TRUE
  ELSE timestamp >= filter[1] /\ timestamp < filter[2]

\* lines 343-347
isWithinTimeFilter(timestamp, filter) ==
  IF filter = null THEN TRUE
  ELSE timestamp >= filter[1] /\ timestamp <= filter[2]

\* line 244: Math.max(1, Math.floor(shark.tracks.length / maxPointsPerTrack))
step(n) ==
  IF n \div maxPointsPerTrack > 1 THEN n \div maxPointsPerTrack ELSE 1

\* lines 249-259: the point on the sphere of the given radius
vector(track, radius) == [lat |-> track[2], lng |-> track[1], radius |-> radius]

\* line 246: the elements 0, step, 2 step, ... of tracks
sampledTracks(tracks) ==
  LET n == Len(tracks)
      st == step(n)
  IN  [k \in 1..((n + st - 1) \div st) |-> tracks[(k - 1) * st + 1]]

\* lines 239-261: the vertices collected for one shark
linePoints(shark, filter) ==
  LET kept == SelectSeq(sampledTracks(shark.tracks),
                        LAMBDA track : isWithinTimeFilter(track[4], filter))
  IN  [k \in 1..Len(kept) |-> vector(kept[k], 202)]

\* Object.values over integer keys: ascending
RECURSIVE ascending(_)
ascending(S) ==
  IF S = {} THEN << >>
  ELSE LET m == CHOOSE x \in S : \A y \in S : x <= y
       IN  <<m>> \o ascending(S \ {m})

\* lines 234-279: the forEach of createTrackLines
RECURSIVE linesFrom(_, _, _, _, _)
linesFrom(ids, tracksMap, visible, filter, made) ==
  IF ids = << >> THEN made
  ELSE LET shark == tracksMap[Head(ids)]
           pts == linePoints(shark, filter)
           rest == Tail(ids)
       IN  IF ~shark.visible \/ shark.id \notin visible
             THEN linesFrom(rest, tracksMap, visible, filter, made)
           ELSE IF Len(made) >= maxVisibleTracks
             THEN linesFrom(rest, tracksMap, visible, filter, made)
           ELSE IF Len(pts) > 1
             THEN linesFrom(rest, tracksMap, visible, filter,
                            Append(made, [type |-> "line", sharkId |-> shark.id,
                                          vertices |-> pts]))
           ELSE linesFrom(rest, tracksMap, visible, filter, made)

\* lines 226-283, the lines it creates
createTrackLines(tracksMap, visible, filter) ==
  linesFrom(ascending(DOMAIN tracksMap), tracksMap, visible, filter, << >>)

\* lines 332-341; undefined (an empty tracks array) and null are both null
getCurrentSharkPosition(shark, filter) ==
  IF filter = null
    THEN IF Len(shark.tracks) > 0 THEN shark.tracks[Len(shark.tracks)] ELSE null
  ELSE LET validTracks == SelectSeq(shark.tracks,
                                    LAMBDA track : isWithinTimeFilter(track[4], filter))
       IN  IF Len(validTracks) > 0 THEN validTracks[Len(validTracks)] ELSE null

\* lines 294-326: the forEach of createSharkMarkers
RECURSIVE markersFrom(_, _, _, _, _)
markersFrom(ids, tracksMap, visible, filter, made) ==
  IF ids = << >> THEN made
  ELSE LET shark == tracksMap[Head(ids)]
           currentTrack == getCurrentSharkPosition(shark, filter)
           rest == Tail(ids)
       IN  IF ~shark.visible \/ shark.id \notin visible
             THEN markersFrom(rest, tracksMap, visible, filter, made)
           ELSE IF currentTrack = null
             THEN markersFrom(rest, tracksMap, visible, filter, made)
           ELSE markersFrom(rest, tracksMap, visible, filter,
                            Append(made, [type |-> "marker", sharkId |-> shark.id,
                                          position |-> vector(currentTrack, 205)]))

\* lines 285-330, the markers it creates
createSharkMarkers(tracksMap, visible, filter) ==
  markersFrom(ascending(DOMAIN tracksMap), tracksMap, visible, filter, << >>)

\* scene.remove(object)
RECURSIVE remove(_, _)
remove(children, object) ==
  IF children = << >> THEN << >>
  ELSE IF Head(children) = object THEN Tail(children)
  ELSE <<Head(children)>> \o remove(Tail(children), object)

\* objects.forEach(object => scene.remove(object))
RECURSIVE removeAll(_, _)
removeAll(children, objects) ==
  IF objects = << >> THEN children
  ELSE removeAll(remove(children, Head(objects)), Tail(objects))

\* createTrackLines and createSharkMarkers without the removal of the old objects
recreate_keepOld(tracksMap, visible, filter) ==
  /\ trackLines' = createTrackLines(tracksMap, visible, filter)
  /\ sharkMarkers' = createSharkMarkers(tracksMap, visible, filter)
  /\ scene' = (scene \o trackLines') \o sharkMarkers'

\* createTrackLines(); createSharkMarkers(); as the three callers run them
recreate(tracksMap, visible, filter) ==
  /\ trackLines' = createTrackLines(tracksMap, visible, filter)
  /\ sharkMarkers' = createSharkMarkers(tracksMap, visible, filter)
  /\ scene' = removeAll(removeAll(scene, trackLines) \o trackLines', sharkMarkers)
                \o sharkMarkers'

idsOf(sharks) == {sharks[k].id : k \in 1..Len(sharks)}

\* lines 199-209: a later shark of the same id replaces an earlier one
stored(sharks) ==
  [id \in idsOf(sharks) |->
     LET last == CHOOSE k \in 1..Len(sharks) :
                   /\ sharks[k].id = id
                   /\ \A l \in 1..Len(sharks) : sharks[l].id = id => l <= k
     IN  [id |-> id, tracks |-> sharks[last].tracks, visible |-> TRUE]]

\* lines 195-224
loadSharkData ==
  /\ \E sharks \in Datasets :
       /\ sharkTracks' = stored(sharks)
       /\ visibleSharks' = visibleSharks \cup idsOf(sharks)
       /\ recreate(sharkTracks', visibleSharks', currentTimeFilter)
  /\ UNCHANGED <<currentTimeFilter, heatmapVars, imageVars, controlVars>>

\* lines 349-381
setTimeFilter(startTimestamp, endTimestamp) ==
  /\ currentTimeFilter' = IF startTimestamp = null \/ endTimestamp = null
                            THEN null
                          ELSE <<startTimestamp[1], endTimestamp[1]>>
  /\ UNCHANGED <<sharkTracks, visibleSharks, heatmapVars, imageVars, controlVars>>
  /\ recreate(sharkTracks, visibleSharks, currentTimeFilter')

setTimeFilterCall ==
  \E startTimestamp \in TimeArgs, endTimestamp \in TimeArgs :
    setTimeFilter(startTimestamp, endTimestamp)

\* toggleShark that only moves the id in and out of visibleSharks when the
\* shark is not loaded
toggleShark_unguardedSet(sharkId, visible) ==
  /\ UNCHANGED <<currentTimeFilter, heatmapVars, imageVars, controlVars>>
  /\ IF sharkId \in DOMAIN sharkTracks
       THEN /\ sharkTracks' = [sharkTracks EXCEPT ![sharkId].visible = visible]
            /\ visibleSharks' = IF visible THEN visibleSharks \cup {sharkId}
                                ELSE visibleSharks \ {sharkId}
            /\ recreate(sharkTracks', visibleSharks', currentTimeFilter)
     ELSE /\ visibleSharks' = IF visible THEN visibleSharks \cup {sharkId}
                              ELSE visibleSharks \ {sharkId}
          /\ UNCHANGED <<sharkTracks, trackLines, sharkMarkers, scene>>

\* lines 383-399
toggleShark(sharkId, visible) ==
  /\ UNCHANGED <<currentTimeFilter, heatmapVars, imageVars, controlVars>>
  /\ IF sharkId \in DOMAIN sharkTracks
       THEN /\ sharkTracks' = [sharkTracks EXCEPT ![sharkId].visible = visible]
            /\ visibleSharks' = IF visible THEN visibleSharks \cup {sharkId}
                                ELSE visibleSharks \ {sharkId}
            /\ recreate(sharkTracks', visibleSharks', currentTimeFilter)
     ELSE UNCHANGED <<sharkTracks, visibleSharks, trackLines, sharkMarkers, scene>>

toggleSharkCall == \E sharkId \in ToggleIds, visible \in BOOLEAN : toggleShark(sharkId, visible)

\* lines 403-404 of getSharkStats
totalSharks == Cardinality(DOMAIN sharkTracks)

visibleSharksCount == Cardinality(visibleSharks)

InitShark ==
  /\ heatmapInit
  /\ sharkInit /\ imageInit /\ controlsInit("whale-shark")

NextShark ==
  \/ loadSharkData
  \/ setTimeFilterCall
  \/ toggleSharkCall

SpecShark == InitShark /\ [][NextShark]_vars

-----------------------------------------------------------------------------
(* The image globe: loadImage starts a THREE.TextureLoader load, whose     *)
(* onLoad or onError callback runs later, in whatever order the loads      *)
(* finish.                                                                 *)

MaxLoads == 3

Images == {"A", "B"}

\* the texture object the loader hands to onLoad for a request
textureOf(imagePath, request) == <<imagePath, request>>

\* lines 158-163: the request is sent, nothing else changes yet
loadImage ==
  /\ Len(loads) < MaxLoads
  /\ \E imagePath \in Images, callback \in BOOLEAN :
       loads' = Append(loads, [imagePath |-> imagePath, callback |-> callback,
                               status |-> "loading", called |-> FALSE])
  /\ UNCHANGED <<currentTexture, uniformTexture, heatmapVars, sharkVars, controlVars>>

\* lines 165-181: the onLoad callback of one of the loads in flight
onLoad ==
  /\ \E request \in 1..Len(loads) :
       /\ loads[request].status = "loading"
       /\ uniformTexture' = textureOf(loads[request].imagePath, request)
       /\ currentTexture' = textureOf(loads[request].imagePath, request)
       /\ loads' = [loads EXCEPT ![request].status = "loaded",
                                 ![request].called = loads[request].callback]
  /\ UNCHANGED <<heatmapVars, sharkVars, controlVars>>

\* lines 185-187: the onError callback of one of the loads in flight
onError ==
  /\ \E request \in 1..Len(loads) :
       /\ loads[request].status = "loading"
       /\ loads' = [loads EXCEPT ![request].status = "failed"]
  /\ UNCHANGED <<currentTexture, uniformTexture, heatmapVars, sharkVars, controlVars>>

InitImage ==
  /\ heatmapInit
  /\ sharkInit /\ imageInit /\ controlsInit("image")

NextImage ==
  \/ loadImage
  \/ onLoad
  \/ onError

SpecImage == InitImage /\ [][NextImage]_vars

-----------------------------------------------------------------------------
(* The camera controls, which the three globes share line for line but for *)
(* the upper limit of zoom and the pinch gesture of the whale-shark globe.  *)

MaxNotches == 2

MaxPinch == 3

\* event.wheelDeltaY: 120 a notch, or undefined on an event that carries
\* only wheelDelta
WheelDeltas == {Num(120 * k) : k \in -MaxNotches..MaxNotches} \cup {NaN}

\* the change of the distance between two touches, in pixels
PinchDeltas == {Num(k) : k \in -MaxPinch..MaxPinch}

farthest(g) == IF g = "whale-shark" THEN 2000 ELSE 1000

nearest == 350

\* the value zoom(delta) leaves in distanceTarget
zoomed(delta) ==
  LET moved == RSub(distanceTarget, delta)
      capped == IF RGt(moved, Num(farthest(globe))) THEN Num(farthest(globe)) ELSE moved
  IN  IF RLt(capped, Num(nearest)) THEN Num(nearest) ELSE capped

zoom(delta) ==
  /\ distanceTarget' = zoomed(delta)
  /\ UNCHANGED <<globe, overRenderer, heatmapVars, sharkVars, imageVars>>

\* the mouseover listener of the container
onMouseOver ==
  /\ overRenderer' = TRUE
  /\ UNCHANGED <<globe, distanceTarget, heatmapVars, sharkVars, imageVars>>

\* the mouseout listener of the container
onMouseOutOfRenderer ==
  /\ overRenderer' = FALSE
  /\ UNCHANGED <<globe, distanceTarget, heatmapVars, sharkVars, imageVars>>

onMouseWheel ==
  /\ overRenderer
  /\ \E wheelDeltaY \in WheelDeltas : zoom(RMul(wheelDeltaY, Rat(3, 10)))

\* keyCode 38 (up) and 40 (down); every other key does nothing
onDocumentKeyDown ==
  \E keyCode \in {38, 40} : zoom(IF keyCode = 38 THEN Num(100) ELSE Num(-100))

\* the two-finger branch of onTouchMove, after an earlier two-finger move
onTouchMove ==
  /\ globe = "whale-shark"
  /\ \E delta \in PinchDeltas : zoom(RMul(delta, Num(2)))

curZoomSpeed == Num(0)

render == zoom(curZoomSpeed)

InitControls ==
  /\ heatmapInit
  /\ sharkInit /\ imageInit
  /\ \E g \in Globes : controlsInit(g)

NextControls ==
  \/ onMouseOver
  \/ onMouseOutOfRenderer
  \/ onMouseWheel
  \/ onDocumentKeyDown
  \/ onTouchMove
  \/ render

SpecControls == InitControls /\ [][NextControls]_vars

-----------------------------------------------------------------------------
(* Properties.                                                              *)

\* the number of triplets (whole or partial) the parse loop has gone through
parsedCount == IF pc = "parse" THEN i \div 3 ELSE (Len(rawData) + 2) \div 3

\* the k-th triplet of rawData (0-based), read as the loop reads it
tripletLat(k) == element(rawData, 3 * k)
tripletLon(k) == element(rawData, 3 * k + 1)
tripletMag(k) == element(rawData, 3 * k + 2)

splatted(k) ==
  /\ RGt(tripletMag(k), Rat(1, 100))
  /\ isOceanPoint(makePoint(tripletLat(k), tripletLon(k), tripletMag(k)))

RECURSIVE expectedPoints(_)
expectedPoints(n) ==
  IF n = 0 THEN << >>
  ELSE IF splatted(n - 1)
       THEN Append(expectedPoints(n - 1),
                   makePoint(tripletLat(n - 1), tripletLon(n - 1), tripletMag(n - 1)))
       ELSE expectedPoints(n - 1)

\* pixel p is within n pixels (in x and in y) of the floored position of point pt
near(p, pt, n) ==
  /\ Abs(p[1] - MathFloor(pt.x)[1]) <= n
  /\ Abs(p[2] - MathFloor(pt.y)[1]) <= n

\* C1: the points list holds exactly the samples with magnitude > 0.01 that
\* isOceanPoint accepts, in input order; one gradient is filled per such point
\* and no other; every pixel that is not transparent lies around a splatted
\* point, so a dropped sample leaves nothing on the raster.
C1_SplatIffAccepted ==
  /\ points = expectedPoints(parsedCount)
  /\ Len(fills) = (IF pc = "parse" THEN 0 ELSE IF pc = "draw" THEN j ELSE Len(points))
  /\ \A k \in 1..Len(fills) : fills[k].x = points[k].x /\ fills[k].y = points[k].y
  /\ \A p \in DOMAIN raster : \E k \in 1..Len(points) : near(p, points[k], 6)

\* C1 witness: a finished call in which one sample was splatted and a sample at
\* an ocean position was dropped because its magnitude is not above 0.01
C1_Witness ==
  /\ pc = "idle"
  /\ \E a, b \in 0..(parsedCount - 1) :
       /\ splatted(a)
       /\ RLe(tripletMag(b), Rat(1, 100))
       /\ isOceanPoint(makePoint(tripletLat(b), tripletLon(b), tripletMag(b)))
       /\ Len(points) = 1
  /\ raster # << >>

-----------------------------------------------------------------------------
(* The ocean classifier and the projection, over the grid (SpecGrid: the    *)
(* input is one sample <<lat, lon, 0.8>>).                                  *)

sampleLat == rawData[1]
sampleLon == rawData[2]

\* the sample has gone through the parse loop
sampleParsed == pc # "parse" \/ i > 0

\* <<latMin, latMax, lonMin, lonMax>>
ExclusionBoxes ==
  { <<30, 47, -6, 42>>,      \* Mediterranean and Black Sea
    <<12, 30, 32, 56>>,      \* Red Sea and Persian Gulf
    <<53, 66, 3, 31>>,       \* Baltic and North Sea
    <<30, 46, 120, 142>>,    \* Sea of Japan and East China Sea
    <<51, 70, -95, -78>>,    \* Hudson Bay
    <<41, 49, -93, -76>>,    \* Great Lakes
    <<18, 31, -98, -80>> }   \* Caribbean and Gulf of Mexico

InclusionBoxes ==
  { <<-50, 50, -180, -120>>, \* Eastern Pacific
    <<-50, 50, 120, 180>>,   \* Western Pacific
    <<-50, 60, -60, -10>>,   \* Western Atlantic
    <<-50, 60, -30, 20>>,    \* Eastern Atlantic
    <<-50, 30, 20, 120>>,    \* Indian Ocean
    <<-55, -30, -180, 180>> } \* Southern Ocean

\* n/d lies strictly between the integers lo and hi
strictlyBetween(a, lo, hi) == lo * a[2] < a[1] /\ a[1] < hi * a[2]

strictlyInside(lat, lon, box) ==
  strictlyBetween(lat, box[1], box[2]) /\ strictlyBetween(lon, box[3], box[4])

inExclusionBox(lat, lon) == \E box \in ExclusionBoxes : strictlyInside(lat, lon, box)

inInclusionBox(lat, lon) == \E box \in InclusionBoxes : strictlyInside(lat, lon, box)

\* rejected by the polar limits, an exclusion box or the |lat| > 70 rule
rejectedByRule(lat, lon) ==
  \/ lat[1] < -60 * lat[2]
  \/ lat[1] > 75 * lat[2]
  \/ inExclusionBox(lat, lon)
  \/ Abs(lat[1]) > 70 * lat[2]

\* C2: a sample strictly inside one of the seven exclusion boxes is never
\* splatted, also when it lies inside a deep-ocean inclusion box; for the input
\* [40, 20, 0.8] nothing is drawn and the raster stays fully transparent.
C2_ExclusionWins ==
  /\ inExclusionBox(sampleLat, sampleLon) => points = << >> /\ fills = << >>
  /\ rawData = <<Num(40), Num(20), Rat(8, 10)>> =>
       points = << >> /\ fills = << >> /\ raster = << >>

\* C2 witness: a finished call whose sample lies in an exclusion box and in an
\* inclusion box
C2_Witness ==
  /\ pc = "idle"
  /\ inExclusionBox(sampleLat, sampleLon)
  /\ inInclusionBox(sampleLat, sampleLon)
  /\ raster = << >>

\* C3: a point that no rejection rule rejects, at the latitude and longitude
\* isOceanPoint computes for it, is accepted exactly when it lies inside one of
\* the six deep-ocean inclusion boxes.
C3_AcceptIffDeepOcean ==
  LET pt == makePoint(sampleLat, sampleLon, rawData[3])
      lat == unprojectLat(pt.y)
      lon == unprojectLon(pt.x)
  IN  (sampleParsed /\ ~rejectedByRule(lat, lon)) =>
        (Len(points) = 1 <=> inInclusionBox(lat, lon))

\* C3 witness: a finished call whose sample passes every rejection rule, lies in
\* no inclusion box and was not accepted
C3_Witness ==
  /\ pc = "idle"
  /\ ~rejectedByRule(sampleLat, sampleLon)
  /\ ~inInclusionBox(sampleLat, sampleLon)
  /\ points = << >>

\* C4: no point of the points list, and so no splat, has a latitude below -60
\* or above 75.
C4_NoPolarPoint ==
  \A k \in 1..Len(points) :
    /\ -60 * points[k].lat[2] <= points[k].lat[1]
    /\ points[k].lat[1] <= 75 * points[k].lat[2]

\* C4 witness: a finished call whose sample has a latitude in (75, 90] and was
\* dropped
C4_Witness ==
  /\ pc = "idle"
  /\ sampleLat[1] > 75 * sampleLat[2]
  /\ sampleLat[1] <= 90 * sampleLat[2]
  /\ strictlyBetween(sampleLon, -180, 180)
  /\ points = << >>
  /\ raster = << >>

\* C5: the canvas coordinates of every sample are x = (lon + 180) / 360 * width
\* and y = (90 - lat) / 180 * height.
C5_Projection ==
  LET pt == makePoint(sampleLat, sampleLon, rawData[3])
      w == heatmapCanvas.width
      h == heatmapCanvas.height
  IN  /\ pt.x = Rat((sampleLon[1] + 180 * sampleLon[2]) * w, 360 * sampleLon[2])
      /\ pt.y = Rat((90 * sampleLat[2] - sampleLat[1]) * h, 180 * sampleLat[2])
      /\ \A k \in 1..Len(points) : points[k].x = pt.x /\ points[k].y = pt.y
      /\ \A k \in 1..Len(fills) : fills[k].x = pt.x /\ fills[k].y = pt.y

\* C5 witness: a sample off the equator and off the prime meridian was splatted
C5_Witness ==
  /\ pc = "idle"
  /\ Len(fills) = 1
  /\ sampleLat[1] # 0 /\ sampleLon[1] # 0
  /\ sampleLat[1] * sampleLon[2] # sampleLon[1] * sampleLat[2]

\* C6: for a sample in range, the latitude and longitude isOceanPoint recomputes
\* from the projected x and y differ from the sample's by at most one pixel's
\* angle (180/256 of a degree in latitude, 360/512 in longitude).
C6_RoundTrip ==
  (/\ RLe(Num(-90), sampleLat) /\ RLe(sampleLat, Num(90))
   /\ RLe(Num(-180), sampleLon) /\ RLe(sampleLon, Num(180))) =>
    LET pt == makePoint(sampleLat, sampleLon, rawData[3])
        lat == unprojectLat(pt.y)
        lon == unprojectLon(pt.x)
    IN  /\ RLe(MathAbs(RSub(lat, sampleLat)), Rat(180, heatmapCanvas.height))
        /\ RLe(MathAbs(RSub(lon, sampleLon)), Rat(360, heatmapCanvas.width))

\* C6 witness: a splatted sample whose pixel position is not a whole number
C6_Witness ==
  /\ pc = "idle"
  /\ Len(points) = 1
  /\ points[1].x[2] # 1 /\ points[1].y[2] # 1
  /\ sampleLat[1] # 0 /\ sampleLon[1] # 0

-----------------------------------------------------------------------------
(* The colour ramp (SpecColor).                                             *)

channelsOf(c) == {c.r, c.g, c.b}

\* C7: across each of the boundaries 0.1, 0.3 and 0.7, the colour just below
\* and the colour at or just above differ by at most 1 in every channel.
C7_ColourContinuity ==
  \A a, b \in 1..Len(colorLog) : \A bd \in Boundaries :
    (/\ RLt(colorLog[a].magnitude, bd)
     /\ RLe(bd, colorLog[b].magnitude)
     /\ RLe(RSub(colorLog[b].magnitude, colorLog[a].magnitude), RMul(Num(2), Eps))) =>
      /\ Abs(colorLog[a].color.r - colorLog[b].color.r) <= 1
      /\ Abs(colorLog[a].color.g - colorLog[b].color.g) <= 1
      /\ Abs(colorLog[a].color.b - colorLog[b].color.b) <= 1

\* C8 as stated: for every magnitude >= 0 each channel is an integer in 0..255.
C8_ChannelsInRange ==
  \A k \in 1..Len(colorLog) :
    RLe(Num(0), colorLog[k].magnitude) => channelsOf(colorLog[k].color) \subseteq 0..255

\* C8, amended: for every magnitude in [0, 1] each channel is an integer in
\* 0..255.
C8_ChannelsInRangeUpToOne ==
  \A k \in 1..Len(colorLog) :
    (RLe(Num(0), colorLog[k].magnitude) /\ RLe(colorLog[k].magnitude, Num(1))) =>
      channelsOf(colorLog[k].color) \subseteq 0..255

\* C8 witness: the colours of magnitude 0 and of magnitude 1 were computed, and
\* the latter reaches 255
C8_Witness ==
  /\ Len(colorLog) = 2
  /\ colorLog[1].magnitude = Num(0)
  /\ colorLog[2].magnitude = Num(1)
  /\ colorLog[2].color.r = 255

-----------------------------------------------------------------------------
(* The splats of a call (Spec).                                             *)

\* the call has drawn every point and blurred the raster
rendered == pc \in {"flag", "idle"}

\* C9: the input [0, 0, 0.5] passes the ocean filter and is splatted at
\* (width / 2, height / 2); its colour is the one of the segment [0.3, 0.7) at
\* t = (0.5 - 0.3) / 0.4, which is <<25, 230, 77>>, green strictly largest; the
\* raster pixel at the centre is not transparent after the render.
C9_EquatorScenario ==
  rawData = <<Num(0), Num(0), Rat(5, 10)>> =>
    /\ pc # "parse" =>
         /\ Len(points) = 1
         /\ points[1].x = Rat(heatmapCanvas.width, 2)
         /\ points[1].y = Rat(heatmapCanvas.height, 2)
    /\ pc \in {"blur", "flag", "idle"} =>
         /\ Len(fills) = 1
         /\ fills[1].x = Rat(heatmapCanvas.width, 2)
         /\ fills[1].y = Rat(heatmapCanvas.height, 2)
         /\ fills[1].color = [r |-> 25, g |-> 230, b |-> 77]
         /\ fills[1].color.g > fills[1].color.r
         /\ fills[1].color.g > fills[1].color.b
         /\ pixelAt(raster, <<heatmapCanvas.width \div 2, heatmapCanvas.height \div 2>>).a > 0

\* C9 witness: the call for [0, 0, 0.5] has returned with the centre pixel painted
C9_Witness ==
  /\ pc = "idle"
  /\ rawData = <<Num(0), Num(0), Rat(5, 10)>>
  /\ <<heatmapCanvas.width \div 2, heatmapCanvas.height \div 2>> \in DOMAIN raster

\* C10: the radius of every splat is min(2 + 2 * magnitude, 4) and its alpha is
\* min(2 * magnitude, 0.9); the radius lies in (2, 4], the alpha in (0.02, 0.9].
C10_RadiusAndAlpha ==
  \A k \in 1..Len(fills) :
    LET m == points[k].magnitude
        twice == Rat(2 * m[1], m[2])
    IN  /\ fills[k].radius = (IF m[1] >= m[2] THEN Num(4) ELSE Rat(2 * m[2] + 2 * m[1], m[2]))
        /\ fills[k].alpha = (IF 20 * m[1] >= 9 * m[2] THEN Rat(9, 10) ELSE twice)
        /\ RLt(Num(2), fills[k].radius) /\ RLe(fills[k].radius, Num(4))
        /\ RLt(Rat(2, 100), fills[k].alpha) /\ RLe(fills[k].alpha, Rat(9, 10))

\* C10 witness: one render drew a splat at the caps (radius 4, alpha 0.9) and
\* one below both caps
C10_Witness ==
  /\ rendered
  /\ \E a, b \in 1..Len(fills) :
       /\ fills[a].radius = Num(4) /\ fills[a].alpha = Rat(9, 10)
       /\ RLt(fills[b].radius, Num(4)) /\ RLt(fills[b].alpha, Rat(9, 10))

\* min(2 * m, 0.9) for a magnitude m
alphaOf(m) == IF 20 * m[1] >= 9 * m[2] THEN Rat(9, 10) ELSE Rat(2 * m[1], m[2])

\* the three stops lie at the offsets 0, 0.7 and 1, all in the point's colour
stopsInColour(k) ==
  /\ Len(fills[k].stops) = 3
  /\ fills[k].stops[1].offset = Num(0)
  /\ fills[k].stops[2].offset = Rat(7, 10)
  /\ fills[k].stops[3].offset = Num(1)
  /\ \A n \in 1..3 : fills[k].stops[n].color = getOceanHeatmapColor(points[k].magnitude)

\* C11 as stated: every gradient has exactly three stops in the sample's colour,
\* with opacity 1.0 at offset 0, 0.3 * alpha at offset 0.7 and 0 at offset 1,
\* where alpha = min(2 * magnitude, 0.9).
C11_StopsOpaqueCentre ==
  \A k \in 1..Len(fills) :
    /\ stopsInColour(k)
    /\ fills[k].stops[1].alpha = Num(1)
    /\ fills[k].stops[2].alpha = RMul(Rat(3, 10), alphaOf(points[k].magnitude))
    /\ fills[k].stops[3].alpha = Num(0)

\* C11, amended: every gradient has exactly three stops in the sample's colour,
\* with opacity alpha at offset 0, 0.3 * alpha at offset 0.7 and 0 at offset 1,
\* where alpha = min(2 * magnitude, 0.9).
C11_StopsAlphaCentre ==
  \A k \in 1..Len(fills) :
    /\ stopsInColour(k)
    /\ fills[k].stops[1].alpha = alphaOf(points[k].magnitude)
    /\ fills[k].stops[2].alpha = RMul(Rat(3, 10), alphaOf(points[k].magnitude))
    /\ fills[k].stops[3].alpha = Num(0)

\* C11 witness: a render drew the splat of a magnitude 0.2 sample, whose stops
\* have the opacities 0.4, 0.12 and 0
C11_Witness ==
  /\ rendered
  /\ \E k \in 1..Len(fills) :
       /\ points[k].magnitude = Rat(2, 10)
       /\ fills[k].stops[1].alpha = Rat(4, 10)
       /\ fills[k].stops[2].alpha = Rat(12, 100)
       /\ fills[k].stops[3].alpha = Num(0)

sameLocation(a, b) == points[a].x = points[b].x /\ points[a].y = points[b].y

\* C12: of two splats of one render at the same location, the one of the larger
\* magnitude has an alpha at the centre stop and at the 0.7 stop, and a radius,
\* at least as large as the other's.
C12_SplatMonotone ==
  \A a, b \in 1..Len(fills) :
    (sameLocation(a, b) /\ RLt(points[a].magnitude, points[b].magnitude)) =>
      /\ RLe(fills[a].stops[1].alpha, fills[b].stops[1].alpha)
      /\ RLe(fills[a].stops[2].alpha, fills[b].stops[2].alpha)
      /\ RLe(fills[a].radius, fills[b].radius)

\* C12 witness: a render drew two splats at one location, the second of a
\* larger magnitude, with a strictly larger alpha and radius
C12_Witness ==
  /\ rendered
  /\ Len(fills) = 2
  /\ sameLocation(1, 2)
  /\ RLt(points[1].magnitude, points[2].magnitude)
  /\ RLt(fills[1].stops[1].alpha, fills[2].stops[1].alpha)
  /\ RLt(fills[1].radius, fills[2].radius)

\* the raster holds the splats only: the draw loop runs or has just ended
splatsOnly == pc \in {"draw", "blur"}

\* pixel now is at least as opaque as pixel before and, in every channel
\* weighted by the opacity, at least as bright, up to one step of the 8-bit
\* rounding of the channel and of the opacity
notDarker(now, before) ==
  /\ now.a >= before.a
  /\ (now.r + 1) * (now.a + 1) >= before.r * before.a
  /\ (now.g + 1) * (now.a + 1) >= before.g * before.a
  /\ (now.b + 1) * (now.a + 1) >= before.b * before.a

\* the k-th splat alone on a cleared canvas (@@ makes the pixels an explicit
\* function)
splatAlone(k) == fill(clearRect, fills[k]) @@ << >>

\* C13: every fill is composited with 'screen'; the context's composite
\* operation is 'screen' from the first splat to the last and 'source-over'
\* again once the draw loop has ended; with the splats drawn so far on the
\* raster, every pixel of a splat, its centre included, is at least as opaque
\* and as bright as that splat alone on a clear canvas leaves it.
C13_ScreenNeverDarkens ==
  /\ \A k \in 1..Len(fills) : fills[k].op = "screen"
  /\ (pc = "draw" /\ j > 0) => globalCompositeOperation = "screen"
  /\ pc \in {"blur", "flag", "idle"} => globalCompositeOperation = "source-over"
  /\ splatsOnly =>
       \A k \in 1..Len(fills) : \A alone \in {splatAlone(k)} :
         \A p \in DOMAIN alone : notDarker(pixelAt(raster, p), alone[p])

\* C13 witness: the splats of the magnitudes 0.2 and 0.9 at one location are
\* both drawn, and the pixel at the centre is more opaque than either splat
\* alone leaves it
C13_Witness ==
  /\ pc = "blur"
  /\ Len(fills) = 2
  /\ sameLocation(1, 2)
  /\ points[1].magnitude = Rat(2, 10)
  /\ points[2].magnitude = Rat(9, 10)
  /\ LET c == <<MathFloor(points[1].x)[1], MathFloor(points[1].y)[1]>>
     IN  /\ pixelAt(raster, c).a > pixelAt(splatAlone(1), c).a
         /\ pixelAt(raster, c).a > pixelAt(splatAlone(2), c).a

-----------------------------------------------------------------------------
(* The selective blur.                                                      *)

\* the raster the first n fills leave on a cleared canvas
RECURSIVE drawnUpTo(_)
drawnUpTo(n) == IF n = 0 THEN clearRect ELSE fill(drawnUpTo(n - 1), fills[n])

\* the raster as the draw loop left it, before any blur (@@ makes the pixels
\* an explicit function)
drawn == drawnUpTo(Len(fills)) @@ << >>

\* p lies on the canvas and within n pixels of the floored position of a point
anyNear(p, n) == onCanvas(p) /\ \E k \in 1..Len(points) : near(p, points[k], n)

\* the pixels around the points, two pixels further than the mask reaches
surroundings ==
  UNION {((MathFloor(points[k].x)[1] - 5) .. (MathFloor(points[k].x)[1] + 5))
           \X ((MathFloor(points[k].y)[1] - 5) .. (MathFloor(points[k].y)[1] + 5)) :
         k \in 1..Len(points)}

\* the pixels a blur can be seen on: the painted ones and the surroundings
observed(before) == DOMAIN before \cup DOMAIN raster \cup surroundings

\* C14: after the blur of a render, a pixel that is on the raster and within 3
\* pixels in x and in y of the floored position of a splatted point holds the
\* blurred value, and every other pixel holds the four channels it held before
\* the blur.
C14_MaskAndPassThrough ==
  pc = "flag" =>
    \A before \in {drawn} : \A p \in observed(before) :
      IF anyNear(p, 3)
      THEN pixelAt(raster, p) = blurPixel(before, p)
      ELSE pixelAt(raster, p) = pixelAt(before, p)

\* C14 witness: the blur has run, a painted pixel outside the mask kept its
\* value and a pixel inside the mask changed
C14_Witness ==
  /\ pc = "flag"
  /\ \E p \in DOMAIN raster : ~anyNear(p, 3) /\ raster[p] = pixelAt(drawn, p)
  /\ \E p \in DOMAIN raster : anyNear(p, 3) /\ raster[p] # pixelAt(drawn, p)

RECURSIVE sumChannel(_, _, _)
sumChannel(rast, qs, ch) ==
  IF qs = {} THEN 0
  ELSE LET q == CHOOSE q \in qs : TRUE
       IN  pixelAt(rast, q)[ch] + sumChannel(rast, qs \ {q}, ch)

onEdgeX(p) == p[1] = 0 \/ p[1] = heatmapCanvas.width - 1
onEdgeY(p) == p[2] = 0 \/ p[2] = heatmapCanvas.height - 1

\* C15: after the blur, every channel of a masked pixel is the average, rounded
\* to the nearest byte, of that channel over the pixels of the 3x3 neighbourhood
\* that lie on the raster, as they were before the blur: 9 pixels in the
\* interior, 6 on an edge, 4 in a corner.
C15_BoxAverage ==
  pc = "flag" =>
    \A before \in {drawn} : \A p \in surroundings :
          anyNear(p, 3) =>
            LET qs == {q \in ((p[1] - 1) .. (p[1] + 1)) \X ((p[2] - 1) .. (p[2] + 1)) :
                         onCanvas(q)}
                count == Cardinality(qs)
            IN  /\ count = (IF onEdgeX(p) /\ onEdgeY(p) THEN 4
                            ELSE IF onEdgeX(p) \/ onEdgeY(p) THEN 6 ELSE 9)
                /\ \A ch \in {"r", "g", "b", "a"} :
                     LET out == pixelAt(raster, p)[ch]
                     IN  2 * Abs(count * out - sumChannel(before, qs, ch)) <= count

\* C15 witness: the blur has run over a mask that reaches the left or the right
\* edge of the raster, and a pixel on that edge is painted
C15_Witness ==
  /\ pc = "flag"
  /\ \E p \in DOMAIN raster : onEdgeX(p) /\ anyNear(p, 3) /\ raster[p].a > 0

\* C16: however many times the blur has run over the canvas with the same
\* points, every pixel with no splatted point within 3 pixels holds exactly the
\* four channels the draw loop left in it.
C16_MaskingIdempotence ==
  (pc = "flag" /\ blurPasses >= 1) =>
    \A before \in {drawn} : \A p \in observed(before) :
      ~anyNear(p, 3) => pixelAt(raster, p) = pixelAt(before, p)

\* C16 witness: the blur has run more than once, it changed the raster again,
\* and a painted pixel with no point within 3 pixels is still there
C16_Witness ==
  /\ pc = "flag"
  /\ blurPasses >= 2
  /\ raster # applyOceanBlur(drawn, points)
  /\ \E p \in DOMAIN raster : ~anyNear(p, 3) /\ raster[p].a > 0

-----------------------------------------------------------------------------
(* The order of the stages of a call.                                       *)

allParsed == ~(i < Len(rawData))

allDrawn == Len(fills) = Len(points)

\* where the call stands, stage by stage
stageReached ==
  /\ pc = "parse" => raster = clearRect /\ fills = << >> /\ blurPasses = 0
  /\ pc = "draw" => allParsed /\ Len(fills) = j /\ blurPasses = 0
  /\ pc = "blur" => allParsed /\ allDrawn /\ blurPasses = 0
  /\ pc = "flag" => allParsed /\ allDrawn /\ blurPasses = 1
  /\ (pc = "idle" /\ blurPasses # 0) => allParsed /\ allDrawn /\ blurPasses = 1

\* the steps that flag the texture, blur, draw, or return
stageStep ==
  /\ (~needsUpdate /\ needsUpdate') => (pc = "flag" /\ blurPasses = 1 /\ allDrawn)
  /\ (pc # "idle" /\ pc' = "idle") => (pc = "flag" /\ needsUpdate' /\ blurPasses' = 1)
  /\ blurPasses' # blurPasses =>
       \/ pc = "blur" /\ allDrawn /\ fills' = fills
       \/ pc = "idle" /\ blurPasses' = 0 /\ raster' = clearRect
  /\ fills' # fills => (blurPasses' = 0 /\ (pc = "draw" \/ fills' = << >>))

\* C17: a call clears the canvas, then parses every sample, then draws every
\* accepted point, then blurs exactly once, then flags the texture and returns;
\* no fill is drawn after the blur, the blur does not run before the last fill,
\* and the texture is not flagged before the blur.
C17_StagesInOrder == [](stageReached) /\ [][stageStep]_vars

\* C17 witness: a call has returned after two fills and one blur, with the
\* texture flagged
C17_Witness ==
  /\ pc = "idle"
  /\ Len(points) = 2
  /\ Len(fills) = 2
  /\ blurPasses = 1
  /\ needsUpdate

-----------------------------------------------------------------------------
(* Inputs at the edge of the contract.                                      *)

\* C18: during and after a call with the empty input, whatever was rendered
\* before, no point is accepted, nothing is filled and every pixel of the
\* raster is transparent; the raster stays the 512x256 canvas.
C18_EmptyInput ==
  rawData = << >> =>
    /\ points = << >>
    /\ fills = << >>
    /\ raster = clearRect
    /\ \A p \in DOMAIN raster : onCanvas(p)

\* C18 witness: a call with the empty input has run to its end
C18_Witness ==
  /\ pc = "idle"
  /\ rawData = << >>
  /\ blurPasses = 1
  /\ needsUpdate
  /\ raster = clearRect

\* C19: an input whose length is not a multiple of 3 is refused before any of
\* it is read: the parse loop takes no step on it and no later stage runs.
C19_MalformedInputRefused ==
  Len(rawData) % 3 # 0 => (pc = "parse" /\ i = 0)

\* the latitude lies in [-90, 90] and the longitude in [-180, 180]
inRange(lat, lon) ==
  /\ -90 * lat[2] <= lat[1] /\ lat[1] <= 90 * lat[2]
  /\ -180 * lon[2] <= lon[1] /\ lon[1] <= 180 * lon[2]

\* data without its samples out of range
RECURSIVE inRangeOnly(_)
inRangeOnly(data) ==
  IF Len(data) < 3 THEN data
  ELSE (IF inRange(data[1], data[2]) THEN SubSeq(data, 1, 3) ELSE << >>)
         \o inRangeOnly(SubSeq(data, 4, Len(data)))

\* the points, the splats and the raster a call renders from data
RECURSIVE pointsOf(_)
pointsOf(data) ==
  IF data = << >> THEN << >>
  ELSE LET pt == makePoint(element(data, 0), element(data, 1), element(data, 2))
       IN  (IF RGt(pt.magnitude, Rat(1, 100)) /\ isOceanPoint(pt) THEN <<pt>> ELSE << >>)
             \o pointsOf(IF Len(data) > 3 THEN SubSeq(data, 4, Len(data)) ELSE << >>)

RECURSIVE splatsOf(_, _)
splatsOf(pts, n) ==
  IF n = 0 THEN clearRect ELSE fill(splatsOf(pts, n - 1), gradientFor(pts[n])) @@ << >>

rasterOf(data) ==
  LET pts == pointsOf(data)
  IN  applyOceanBlur(splatsOf(pts, Len(pts)), pts) @@ << >>

\* C20: a sample with a latitude outside [-90, 90] or a longitude outside
\* [-180, 180] stops nothing and leaves no trace: the call runs to its end, no
\* accepted point (and so no splat and no mask window) comes from such a
\* sample, and the raster is the one rendered from the input without the
\* samples out of range.
C20_OutOfRangeNoOp ==
  /\ \A k \in 1..Len(points) : inRange(points[k].lat, points[k].lon)
  /\ \A k \in 1..Len(fills) : inRange(points[k].lat, points[k].lon)
  /\ pc # "parse" => points = pointsOf(inRangeOnly(rawData))
  /\ pc = "idle" => raster = rasterOf(inRangeOnly(rawData))

\* C20 witness: a call has returned whose input holds a sample out of range
\* before a sample that was splatted
C20_Witness ==
  /\ pc = "idle"
  /\ Len(rawData) = 6
  /\ ~inRange(rawData[1], rawData[2])
  /\ inRange(rawData[4], rawData[5])
  /\ Len(points) = 1
  /\ raster # clearRect

-----------------------------------------------------------------------------
(* What a call leaves behind, and the reach of the classifier.              *)

\* the part of rawData the parse loop has gone through
parsedPart == SubSeq(rawData, 1, IF i < Len(rawData) THEN i ELSE Len(rawData))

\* the gradients of the first n points
gradientsOf(pts, n) == [k \in 1..n |-> gradientFor(pts[k])]

\* C21: while a call parses its input, and once it has returned, the points,
\* the fills, the composite operation and the raster are the ones the same
\* call reaches on a newly created canvas, whatever the calls before it
\* rendered: the raster after updateHeatmap(B) is the raster of B alone.
C21_NoStateSurvives ==
  /\ pc = "parse" =>
       /\ points = pointsOf(parsedPart)
       /\ fills = << >> /\ raster = clearRect
       /\ globalCompositeOperation = "source-over"
  /\ pc = "idle" =>
       /\ points = pointsOf(rawData)
       /\ fills = gradientsOf(points, Len(points))
       /\ raster = rasterOf(rawData)
       /\ globalCompositeOperation = "source-over"

\* C21 witness: a call has started after a call that drew splats (the draw
\* index of that call is still there), and the canvas is clear again
C21_Witness ==
  /\ pc = "parse"
  /\ j > 0
  /\ rawData # << >>
  /\ raster = clearRect
  /\ points = << >>

\* isOceanPoint without the |lat| > 70 rule of line 307
isOceanPoint_noLat70(point) ==
  LET lat == unprojectLat(point.y)
      lon == unprojectLon(point.x)
  IN  IF RLt(lat, Num(-60)) THEN FALSE
      ELSE IF RGt(lat, Num(75)) THEN FALSE
      ELSE IF within(lat, lon, 30, 47, -6, 42) THEN FALSE
      ELSE IF within(lat, lon, 12, 30, 32, 56) THEN FALSE
      ELSE IF within(lat, lon, 53, 66, 3, 31) THEN FALSE
      ELSE IF within(lat, lon, 30, 46, 120, 142) THEN FALSE
      ELSE IF within(lat, lon, 51, 70, -95, -78) THEN FALSE
      ELSE IF within(lat, lon, 41, 49, -93, -76) THEN FALSE
      ELSE IF within(lat, lon, 18, 31, -98, -80) THEN FALSE
      ELSE isDeepOceanArea(lat, lon)

samplePoint == makePoint(sampleLat, sampleLon, rawData[3])

\* the sample's latitude lies in (70, 75]
inRuleBand == sampleLat[1] > 70 * sampleLat[2] /\ sampleLat[1] <= 75 * sampleLat[2]

\* C23 as stated: some sample with a latitude in (70, 75] is accepted by the
\* classifier without the |lat| > 70 rule and rejected by the classifier with
\* it: once the samples of that band have been classified, one of them is
\* such a sample.
C23_RuleChangesResult ==
  (sampleParsed /\ inRuleBand) =>
    \E lat \in GridLats, lon \in GridLons :
      /\ lat[1] > 70 * lat[2] /\ lat[1] <= 75 * lat[2]
      /\ isOceanPoint_noLat70(makePoint(lat, lon, rawData[3]))
      /\ ~isOceanPoint(makePoint(lat, lon, rawData[3]))

\* C23, amended: the |lat| > 70 rule changes no result: every sample is
\* accepted by the classifier exactly when the classifier without the rule
\* accepts it, and no sample with a latitude in (70, 75] is accepted by either.
C23_RuleChangesNothing ==
  sampleParsed =>
    /\ Len(points) = 1 <=> isOceanPoint_noLat70(samplePoint)
    /\ inRuleBand => (points = << >> /\ ~isOceanPoint_noLat70(samplePoint))

\* C23 witness: a sample with a latitude in (70, 75], inside the longitudes of
\* the Western Atlantic box, has been classified and dropped
C23_Witness ==
  /\ pc = "idle"
  /\ inRuleBand
  /\ strictlyBetween(sampleLon, -60, -10)
  /\ points = << >>

\* C29: every accepted point has -55 < lat < 60 and -180 < lon < 180, and the
\* pixel (floor(x), floor(y)) of its position lies on the raster; a sample
\* with a longitude of 180 or -180 is never accepted.
C29_AcceptedOnRaster ==
  /\ \A k \in 1..Len(points) :
       /\ strictlyBetween(points[k].lat, -55, 60)
       /\ strictlyBetween(points[k].lon, -180, 180)
       /\ onCanvas(<<MathFloor(points[k].x)[1], MathFloor(points[k].y)[1]>>)
  /\ (sampleLon = Num(180) \/ sampleLon = Num(-180)) => points = << >>

\* C29 witness: a sample on the antimeridian, at a latitude of the Pacific
\* boxes, has been classified and dropped
C29_Witness ==
  /\ pc = "idle"
  /\ sampleLon = Num(180)
  /\ strictlyBetween(sampleLat, -50, 50)
  /\ points = << >>
  /\ raster = clearRect

-----------------------------------------------------------------------------
(* The whale-shark globe: what the scene shows.                            *)

linesInScene == SelectSeq(scene, LAMBDA object : object.type = "line")

markersInScene == SelectSeq(scene, LAMBDA object : object.type = "marker")

hasLine(id) == \E k \in 1..Len(scene) : scene[k].type = "line" /\ scene[k].sharkId = id

hasMarker(id) == \E k \in 1..Len(scene) : scene[k].type = "marker" /\ scene[k].sharkId = id

inFilter(track) ==
  currentTimeFilter = null
    \/ (currentTimeFilter[1] <= track[4] /\ track[4] <= currentTimeFilter[2])

\* the track elements the line of a shark is drawn through: every step-th
\* element, of those the ones in the filter
drawable(id) ==
  LET tracks == sharkTracks[id].tracks
  IN  {k \in 1..Len(tracks) : (k - 1) % step(Len(tracks)) = 0 /\ inFilter(tracks[k])}

shownOnGlobe(id) == sharkTracks[id].visible /\ id \in visibleSharks

\* the sharks a line is drawn for when no limit applies
lineCandidates ==
  {id \in DOMAIN sharkTracks : shownOnGlobe(id) /\ Cardinality(drawable(id)) > 1}

\* a hidden shark has neither line nor marker in the scene; a shown shark has
\* its marker when it has a current position, and its line when it is one of
\* the first maxVisibleTracks sharks with at least two points to draw
sceneFollowsToggles ==
  \A id \in DOMAIN sharkTracks :
    IF ~sharkTracks[id].visible
      THEN ~hasLine(id) /\ ~hasMarker(id)
    ELSE /\ hasMarker(id) <=>
              (shownOnGlobe(id) /\
                 \E k \in 1..Len(sharkTracks[id].tracks) : inFilter(sharkTracks[id].tracks[k]))
         /\ hasLine(id) <=>
              (id \in lineCandidates /\
                 Cardinality({other \in lineCandidates : other < id}) < maxVisibleTracks)

\* a step of toggleShark: on a shark that is not loaded nothing changes; on a
\* loaded one the flag and the set follow the argument
toggleStep ==
  \A sharkId \in ToggleIds, visible \in BOOLEAN :
    toggleShark(sharkId, visible) =>
      IF sharkId \in DOMAIN sharkTracks
        THEN /\ sharkTracks'[sharkId].visible = visible
             /\ visible => (hasLine(sharkId)' <=>
                              (sharkId \in lineCandidates' /\
                                 Cardinality({other \in lineCandidates' : other < sharkId})
                                   < maxVisibleTracks))
             /\ ~visible => (~hasLine(sharkId)' /\ ~hasMarker(sharkId)')
      ELSE UNCHANGED sharkVars

\* C22: toggleShark(id, false) on a loaded shark removes its track line and
\* its marker from the scene, a later toggleShark(id, true) shows them again,
\* and toggleShark with an id that is not loaded changes nothing.
C22_ToggleShark == [](sceneFollowsToggles) /\ [][toggleStep]_vars

\* C22 witness: of two loaded sharks with a track to draw, one is hidden and
\* absent from the scene, the other is shown with line and marker
C22_Witness ==
  /\ DOMAIN sharkTracks = {1, 2}
  /\ ~sharkTracks[1].visible /\ Len(sharkTracks[1].tracks) > 1
  /\ ~hasLine(1) /\ ~hasMarker(1)
  /\ sharkTracks[2].visible /\ hasLine(2) /\ hasMarker(2)
  /\ currentTimeFilter = null

\* the index of the track element a shark's marker belongs at, 0 when none
currentIndex(id) ==
  LET tracks == sharkTracks[id].tracks
      inside == {k \in 1..Len(tracks) : inFilter(tracks[k])}
  IN  IF inside = {} THEN 0 ELSE CHOOSE k \in inside : \A l \in inside : l <= k

markersAtCurrentPosition ==
  /\ \A k \in 1..Len(sharkMarkers) :
       LET id == sharkMarkers[k].sharkId
           at == currentIndex(id)
       IN  /\ id \in DOMAIN sharkTracks
           /\ at > 0
           /\ sharkMarkers[k].position.lat = sharkTracks[id].tracks[at][2]
           /\ sharkMarkers[k].position.lng = sharkTracks[id].tracks[at][1]
  /\ \A id \in DOMAIN sharkTracks :
       (shownOnGlobe(id) /\ currentIndex(id) = 0) =>
         \A k \in 1..Len(sharkMarkers) : sharkMarkers[k].sharkId # id
  /\ \A id \in DOMAIN sharkTracks :
       (shownOnGlobe(id) /\ currentIndex(id) > 0) =>
         \E k \in 1..Len(sharkMarkers) : sharkMarkers[k].sharkId = id

\* a step of setTimeFilter with a null bound clears the filter, and every
\* sampled track point of a shown shark is drawn again
clearStep ==
  \A startTimestamp \in TimeArgs, endTimestamp \in TimeArgs :
    ((startTimestamp = null \/ endTimestamp = null)
       /\ setTimeFilter(startTimestamp, endTimestamp))
      => /\ currentTimeFilter' = null
         /\ \A k \in 1..Len(trackLines') :
              Len(trackLines'[k].vertices)
                = Len(sampledTracks(sharkTracks[trackLines'[k].sharkId].tracks))
         /\ \A k \in 1..Len(sharkMarkers') :
              LET tracks == sharkTracks[sharkMarkers'[k].sharkId].tracks
              IN  sharkMarkers'[k].position.lng = tracks[Len(tracks)][1]

\* C24: a shark's marker is at the last element of its tracks when there is
\* no time filter, and at the last element with start <= t <= end when there
\* is one; a shown shark with no element in the filter has no marker; and
\* setTimeFilter with a null start or end clears the filter.
C24_MarkerAtCurrentPosition == [](markersAtCurrentPosition) /\ [][clearStep]_vars

\* C24 witness: under the filter [1, 2] the shark with timestamps 3, 1, 2 has
\* its marker at its third element, whose timestamp is the end of the filter
C24_Witness ==
  /\ currentTimeFilter = <<1, 2>>
  /\ 1 \in DOMAIN sharkTracks
  /\ Len(sharkTracks[1].tracks) = 3
  /\ sharkTracks[1].tracks[1][4] = 3
  /\ \E k \in 1..Len(sharkMarkers) :
       sharkMarkers[k].sharkId = 1 /\ sharkMarkers[k].position.lng = 3

\* C25: every id in visibleSharks is the id of a shark in sharkTracks, so the
\* visibleSharks of getSharkStats is at most its totalSharks.
C25_VisibleAreLoaded ==
  /\ visibleSharks \subseteq DOMAIN sharkTracks
  /\ visibleSharksCount <= totalSharks

\* C26: every track line has at most maxPointsPerTrack vertices.
C26_LineWithinLimit ==
  \A k \in 1..Len(trackLines) : Len(trackLines[k].vertices) <= maxPointsPerTrack

\* C27: at most 20 track lines exist, the lines in the scene are exactly the
\* elements of trackLines and the markers in the scene exactly the elements
\* of sharkMarkers.
C27_SceneHoldsCurrentObjects ==
  /\ Len(trackLines) <= 20
  /\ linesInScene = trackLines
  /\ markersInScene = sharkMarkers
  /\ Len(scene) = Len(globeMeshes) + Len(trackLines) + Len(sharkMarkers)

\* C27 witness: the school is loaded, more sharks than the limit have a track
\* to draw, and twenty lines are in the scene
C27_Witness ==
  /\ Cardinality(lineCandidates) > maxVisibleTracks
  /\ Len(trackLines) = maxVisibleTracks
  /\ Len(linesInScene) = maxVisibleTracks
  /\ Len(sharkMarkers) > maxVisibleTracks

-----------------------------------------------------------------------------
(* The image globe and the camera controls.                                *)

allCompleted == \A k \in 1..Len(loads) : loads[k].status # "loading"

\* the latest request has been loaded and no load is in flight: the globe
\* shows the texture of that request
latestShown ==
  (Len(loads) >= 2 /\ allCompleted /\ \A k \in 1..Len(loads) : loads[k].status = "loaded")
    => /\ currentTexture = textureOf(loads[Len(loads)].imagePath, Len(loads))
       /\ uniformTexture = textureOf(loads[Len(loads)].imagePath, Len(loads))

\* a failed load has not called back, and when every load failed the
\* texture is the one the globe started with
failedLoadsSilent ==
  /\ \A k \in 1..Len(loads) : loads[k].status = "failed" => ~loads[k].called
  /\ (\A k \in 1..Len(loads) : loads[k].status # "loaded")
       => (currentTexture = null /\ uniformTexture = defaultTexture)

\* C28: when loadImage(A) and then loadImage(B) were called and both loads
\* have completed, in either order, currentTexture and the material's texture
\* uniform are the texture of B; a failed load leaves the texture unchanged
\* and does not invoke the callback.
C28_LatestRequestShown == latestShown /\ failedLoadsSilent

inZoomRange ==
  /\ RLe(Num(nearest), distanceTarget)
  /\ RLe(distanceTarget, Num(farthest(globe)))

\* C30: once zoom has been called, distanceTarget lies in [350, 1000] in the
\* heatmap and image globes and in [350, 2000] in the whale-shark globe,
\* after every sequence of wheel, key, pinch and render events.
C30_DistanceTargetInRange ==
  distanceTarget # initialDistanceTarget(globe) => inZoomRange

=============================================================================
